---- MODULE Spec2Model ----
(***************************************************************************)
(* Model of the raw record decoding engine of pyansys                      *)
(* (src/pyansys/cython/binary_reader.cpp): the record header parser, the   *)
(* bitmask and windowed sparse decoders and the two record dispatchers;    *)
(* and of the fixed-width text decoders of src/pyansys/cython/reader.c:    *)
(* the integer field parsers, read_nblock and read_eblock.                 *)
(*                                                                         *)
(* Memory model.  A raw record buffer is a sequence of 32-bit words, held  *)
(* as signed integers; word i of the C buffer is raw[i+1].  A typed view   *)
(* of the buffer (the C casts of raw to short, double, ...) is computed    *)
(* by TAt on a little-endian host: a short is one half of a word, an int   *)
(* or a float is one word (a float is kept as its bit pattern), a double   *)
(* is the pair <<low word, high word>>.  An output array is a record       *)
(* [a |-> elements of the allocation, oob |-> writes that fell outside].   *)
(***************************************************************************)
EXTENDS Integers, Sequences, FiniteSets, TLC

\* hdr: the 8 header bytes of the record in the file; payload: the words that
\* follow them; start: the word offset of the record in the file; gen: how
\* the payload was built; arr: the caller's destination array; fpos: the
\* position (in words) of the caller's stream; rr, rs: what the calls of
\* read_record and read_record_stream left behind.
\* stream: the bytes a file stream holds from its position on; rh: what a
\* call of read_header on it left behind.
\* text: a text buffer with its field widths, cursor and how it was built;
\* rn, re: what the calls of read_nblock and read_eblock on it left behind;
\* ri: what the calls of fast_atoi and fast_atoi2 on a field of it left behind.
VARIABLES hdr, payload, start, gen, arr, fpos, rr, rs, stream, rh, text, rn, re, ri, mesh, rv, tin, heap, th, nfile, rd, full, ra

vars == <<hdr, payload, start, gen, arr, fpos, rr, rs, stream, rh, text, rn, re, ri, mesh, rv, tin, heap, th, nfile, rd, full, ra>>

(* ---------------------------------------------------------------- bounds *)

\* Largest declared size of a sparse vector.
MaxSize == 2

\* Largest buffer_size (payload words) of a generated record.
MaxBuf == 8

\* Largest word offset of the record in its file.
MaxStart == 1

(* ------------------------------------------------------------ arithmetic *)

RECURSIVE Pow2(_)
Pow2(n) == IF n <= 0 THEN 1 ELSE 2 * Pow2(n - 1)

Max(a, b) == IF a >= b THEN a ELSE b

\* Words are held as C ints (32-bit two's complement values), so a word needs
\* no reduction; bit and byte extraction use floor division, which on a
\* negative value yields the bits of its two's complement pattern.

\* The value of a 16-bit pattern as a C short.
S16(x) == LET m == x % Pow2(16) IN IF m >= Pow2(15) THEN m - Pow2(16) ELSE m

\* Byte k (0 = least significant) of the two's complement pattern of x.
ByteOf(x, k) == (x \div Pow2(8 * k)) % 256

(* ----------------------------------------------------------- data types *)

Types == {"short", "int", "float", "double"}

\* sizeof(T) in bytes.
SizeOf(T) == CASE T = "short" -> 2 [] T = "int" -> 4 [] T = "float" -> 4 [] T = "double" -> 8

\* The element type the dispatchers select from type_flag and prec_flag.
TypeOf(type_flag, prec_flag) ==
  IF type_flag # 0
  THEN (IF prec_flag # 0 THEN "short" ELSE "int")
  ELSE (IF prec_flag # 0 THEN "float" ELSE "double")

\* The value 0 converted to T (vec[iloc] = 0), also what MEM_ZERO leaves.
Zero(T) == IF T = "double" THEN <<0, 0>> ELSE 0

\* Word i of a buffer; a read past the words the buffer holds yields junk.
W(raw, i, junk) == IF i >= 0 /\ i < Len(raw) THEN raw[i + 1] ELSE junk

\* ((T*)(raw + p))[k]: element k of the typed view starting at word p.
TAt(T, raw, p, k, junk) ==
  CASE T = "short" ->
         LET w == W(raw, p + (k \div 2), junk)
         IN  IF k % 2 = 0 THEN S16(w) ELSE S16(w \div Pow2(16))
    [] T = "double" -> <<W(raw, p + 2 * k, junk), W(raw, p + 2 * k + 1, junk)>>
    [] OTHER -> W(raw, p + k, junk)

\* Words spanned by n consecutive elements of T.
ElemWords(T, n) == (n * SizeOf(T) + 3) \div 4

\* An element of a fresh allocation that was never written.
Uninit(T, junk) == IF T = "double" THEN <<junk, junk>> ELSE junk

\* new T[n]: n elements of indeterminate value.
NewArray(T, n, junk) == [a |-> [i \in 1..n |-> Uninit(T, junk)], oob |-> {}]

\* vec[i] = v.  A write outside the allocation is recorded in oob.
Store(mem, i, v) ==
  IF i >= 0 /\ i < Len(mem.a)
  THEN [mem EXCEPT !.a[i + 1] = v]
  ELSE [mem EXCEPT !.oob = @ \cup {<<i, v>>}]

\* MEM_ZERO(adr, n*sizeof(T)): elements 0..n-1 of the array set to zero.
RECURSIVE MemZero(_, _, _)
MemZero(mem, n, T) ==
  IF n <= 0 THEN mem ELSE MemZero(Store(mem, n - 1, Zero(T)), n - 1, T)

(* ---------------------------------------------------------------- header *)

\* raw[7] as a (signed) char.
SChar(b) == IF b >= 128 THEN b - 256 ELSE b

\* The shift without the mask, c >> k.
ShiftBit_nomask(c, k) == c \div Pow2(k)

\* (c >> k) & 1 on a signed char (arithmetic shift).
ShiftBit(c, k) == (c \div Pow2(k)) % 2

\* read_header: buffer size from bytes 0-3, flags from byte 7.
read_header(h) ==
  [bufsize      |-> h[1] + 256 * h[2] + 65536 * h[3] + 16777216 * SChar(h[4]),
   bsparse_flag |-> ShiftBit(SChar(h[8]), 3),
   wsparse_flag |-> ShiftBit(SChar(h[8]), 4),
   zlib_flag    |-> ShiftBit(SChar(h[8]), 5),
   prec_flag    |-> ShiftBit(SChar(h[8]), 6),
   type_flag    |-> ShiftBit(SChar(h[8]), 7)]

(* ------------------------------------------------------- bitmask decoder *)

\* IS_ON with the mask shifted one bit too far, (1u << (p + 1)).
IS_ON_shifted(e, p) == IF p >= 30 THEN p = 30 /\ e < 0 ELSE (e \div Pow2(p + 1)) % 2 = 1

\* IS_ON(e,p): ((e) & (1u << (p))), e converted to unsigned: bit p of the
\* pattern of e (bit 31 is the sign).
IS_ON(e, p) == IF p >= 31 THEN p = 31 /\ e < 0 ELSE (e \div Pow2(p)) % 2 = 1

\* The lookup table of NbBitsOn: the number of bits set in each byte value.
nbbitsperchar ==
  <<0,1,1,2,1,2,2,3,1,2,2,3,2,3,3,4,1,2,2,3,2,3,3,4,2,3,3,4,
    3,4,4,5,1,2,2,3,2,3,3,4,2,3,3,4,3,4,4,5,2,3,3,4,3,4,4,5,
    3,4,4,5,4,5,5,6,1,2,2,3,2,3,3,4,2,3,3,4,3,4,4,5,2,3,3,4,
    3,4,4,5,3,4,4,5,4,5,5,6,2,3,3,4,3,4,4,5,3,4,4,5,4,5,5,6,
    3,4,4,5,4,5,5,6,4,5,5,6,5,6,6,7,1,2,2,3,2,3,3,4,2,3,3,4,
    3,4,4,5,2,3,3,4,3,4,4,5,3,4,4,5,4,5,5,6,2,3,3,4,3,4,4,5,
    3,4,4,5,4,5,5,6,3,4,4,5,4,5,5,6,4,5,5,6,5,6,6,7,2,3,3,4,
    3,4,4,5,3,4,4,5,4,5,5,6,3,4,4,5,4,5,5,6,4,5,5,6,5,6,6,7,
    3,4,4,5,4,5,5,6,4,5,5,6,5,6,6,7,4,5,5,6,5,6,6,7,5,6,6,7,6,7,7,8>>

NbBitsOn(iVal) ==
  nbbitsperchar[ByteOf(iVal, 0) + 1] + nbbitsperchar[ByteOf(iVal, 1) + 1]
  + nbbitsperchar[ByteOf(iVal, 2) + 1] + nbbitsperchar[ByteOf(iVal, 3) + 1]

\* while (++iloc < *size) { if IS_ON(bitcod, iloc) vec[iloc] = *tbuf++; else vec[iloc] = 0; }
\* tbuf counts the packed values consumed so far.
\* BsparseIter is the loop body on the state st = [iloc, tbuf, mem].
BsparseIter(T, raw, junk, bitcod, st) ==
  IF IS_ON(bitcod, st.iloc)
  THEN [iloc |-> st.iloc + 1, tbuf |-> st.tbuf + 1,
        mem |-> Store(st.mem, st.iloc, TAt(T, raw, 2, st.tbuf, junk))]
  ELSE [iloc |-> st.iloc + 1, tbuf |-> st.tbuf,
        mem |-> Store(st.mem, st.iloc, Zero(T))]

RECURSIVE BsparseLoop(_, _, _, _, _, _)
BsparseLoop(T, raw, junk, size, bitcod, st) ==
  IF st.iloc >= size THEN st
  ELSE BsparseLoop(T, raw, junk, size, bitcod, BsparseIter(T, raw, junk, bitcod, st))

\* What a decoder hands back: the element type it decoded as, the declared
\* size, the output array, the windows it decoded, the number of buffer words
\* it read, and (int16 bitmask only) the padded population count nb.
Decoded(T, size, mem, trace, touched, nb) ==
  [T |-> T, size |-> size, mem |-> mem, trace |-> trace, touched |-> touched,
   nb |-> nb]

\* What a bitmask decoder hands back from the state r its loop left.
BsparseResult(T, size, nb, r) ==
  Decoded(T, size, r.mem, <<>>, 2 + ElemWords(T, r.tbuf), nb)

\* if (nb%2) nb++;
PadEven(nb) == IF nb % 2 # 0 THEN nb + 1 ELSE nb

\* template ReadBsparseRecordToVec<T>(raw, size, vec)
ReadBsparseRecordToVec(T, raw, junk, vec) ==
  BsparseResult(T, W(raw, 0, junk), 0,
                BsparseLoop(T, raw, junk, W(raw, 0, junk), W(raw, 1, junk),
                            [iloc |-> 0, tbuf |-> 0, mem |-> vec]))

\* template ReadBsparseRecord<T>(buffer, size): vec = new T[*size]
ReadBsparseRecord(T, raw, junk) ==
  ReadBsparseRecordToVec(T, raw, junk, NewArray(T, W(raw, 0, junk), junk))

\* ReadShortBsparseRecordToVec: nb = NbBitsOn(bitcod); if (nb%2) nb++; then
\* the same loop over a short view of the buffer.
ReadShortBsparseRecordToVec(raw, junk, vec) ==
  BsparseResult("short", W(raw, 0, junk), PadEven(NbBitsOn(W(raw, 1, junk))),
                BsparseLoop("short", raw, junk, W(raw, 0, junk), W(raw, 1, junk),
                            [iloc |-> 0, tbuf |-> 0, mem |-> vec]))

\* ReadShortBsparseRecord: vec = new short[*size]() (value-initialised)
ReadShortBsparseRecord(raw, junk) ==
  ReadShortBsparseRecordToVec(raw, junk, NewArray("short", W(raw, 0, junk), 0))

(* ------------------------------------------------------ windowed decoder *)

\* MEMCOPY((T *)raw, adr, iLen, T): iLen elements of the typed view starting
\* at word p copied to vec[adr ..], element k being copied k-th.
RECURSIVE MemCopy(_, _, _, _, _, _, _)
MemCopy(T, raw, junk, p, mem, adr, iLen) ==
  IF iLen <= 0 THEN mem
  ELSE Store(MemCopy(T, raw, junk, p, mem, adr, iLen - 1),
             adr + iLen - 1, TAt(T, raw, p, iLen - 1, junk))

\* The constant fill without its loop: *(adr) = ValCst, once.
ConstFill_once(mem, adr, ValCst, iLen) == Store(mem, adr, ValCst)

\* do (*(adr++) = ValCst); while (--iLen > 0);
RECURSIVE ConstFill(_, _, _, _)
ConstFill(mem, adr, ValCst, iLen) ==
  IF iLen - 1 > 0
  THEN ConstFill(Store(mem, adr, ValCst), adr + 1, ValCst, iLen - 1)
  ELSE Store(mem, adr, ValCst)

\* The record kept of one decoded window: the cursor (word offset of raw)
\* before and after it, the loc and len words read, and the output array
\* before and after it.
WinEntry(kind, p0, p1, iLoc, iLen, before, after) ==
  [kind |-> kind, p0 |-> p0, p1 |-> p1, loc |-> iLoc, len |-> iLen,
   before |-> before, after |-> after]

\* The state after a window: the cursor moved to p1, the output array m,
\* the buffer words read so far, and the window appended to the trace.
WinStep(kind, st, p1, iLoc, iLen, touched, m) ==
  [p |-> p1, mem |-> m, touched |-> Max(st.touched, touched),
   trace |-> Append(st.trace, WinEntry(kind, st.p, p1, iLoc, iLen, st.mem, m))]

\* One pass of the do { ... } while (--NWin > 0) body.  st.p is the cursor
\* raw, st.mem the output array, st.touched the number of buffer words read.
WinIter(T, iShift, raw, junk, st) ==
  LET iLoc == W(raw, st.p, junk)
      iLen == W(raw, st.p + 1, junk)
  IN  IF iLoc > 0
      THEN WinStep("isolated", st, st.p + 1 + iShift, iLoc, 0,
                   st.p + 1 + ElemWords(T, 1),
                   Store(st.mem, iLoc, TAt(T, raw, st.p + 1, 0, junk)))
      ELSE IF iLen > 0
           THEN WinStep("run", st, st.p + 2 + iShift * iLen, iLoc, iLen,
                        st.p + 2 + ElemWords(T, iLen),
                        MemCopy(T, raw, junk, st.p + 2, st.mem, -iLoc, iLen))
           ELSE WinStep("constant", st, st.p + 2 + iShift, iLoc, iLen,
                        st.p + 2 + ElemWords(T, 1),
                        ConstFill(st.mem, -iLoc, TAt(T, raw, st.p + 2, 0, junk), -iLen))

\* do { ... } while (--NWin > 0): WinDoWhile runs the body, WinWhile tests
\* the condition on the state s1 the body left.
RECURSIVE WinDoWhile(_, _, _, _, _, _)
RECURSIVE WinWhile(_, _, _, _, _, _)
WinWhile(T, iShift, raw, junk, NWin, s1) ==
  IF NWin - 1 > 0 THEN WinDoWhile(T, iShift, raw, junk, NWin - 1, s1) ELSE s1

WinDoWhile(T, iShift, raw, junk, NWin, st) ==
  WinWhile(T, iShift, raw, junk, NWin, WinIter(T, iShift, raw, junk, st))

\* What a windowed decoder hands back from the state its loop left.
WinResult(T, size, st) == Decoded(T, size, st.mem, st.trace, st.touched, 0)

\* The body shared by the five windowed decoders: read size and NWin,
\* MEM_ZERO the first size elements of vec, then if (NWin > 0) run the loop.
WinStart(T, vec, size) ==
  [p |-> 2, mem |-> MemZero(vec, size, T), touched |-> 2, trace |-> <<>>]

WindowedDecode(T, iShift, raw, junk, vec) ==
  IF W(raw, 1, junk) > 0
  THEN WinResult(T, W(raw, 0, junk),
                 WinDoWhile(T, iShift, raw, junk, W(raw, 1, junk),
                            WinStart(T, vec, W(raw, 0, junk))))
  ELSE WinResult(T, W(raw, 0, junk), WinStart(T, vec, W(raw, 0, junk)))

\* int iShift = sizeof(T)/sizeof(int);
ShiftOf(T) == SizeOf(T) \div SizeOf("int")

\* template ReadWindowedSparseBuffer<T>(buffer, size): vec = new T[*size]
ReadWindowedSparseBuffer(T, raw, junk) ==
  WindowedDecode(T, ShiftOf(T), raw, junk, NewArray(T, W(raw, 0, junk), junk))

ReadWindowedSparseBufferDouble(raw, junk, vec) ==
  WindowedDecode("double", ShiftOf("double"), raw, junk, vec)

ReadWindowedSparseBufferFloat(raw, junk, vec) ==
  WindowedDecode("float", ShiftOf("float"), raw, junk, vec)

ReadWindowedSparseBufferInt(raw, junk, vec) ==
  WindowedDecode("int", ShiftOf("int"), raw, junk, vec)

ReadWindowedSparseBufferShort(raw, junk, vec) ==
  WindowedDecode("short", ShiftOf("short"), raw, junk, vec)

(* ------------------------------------------------------------ dispatcher *)

\* binFile.read(raw, 4*bufsize): the words the stream delivers, at most those
\* the file holds.
ReadWords(data, n) == SubSeq(data, 1, IF n < Len(data) THEN Max(n, 0) ELSE Len(data))

\* The typed view of a whole buffer of nwords words: its complete elements.
ViewOf(T, raw, nwords, junk) ==
  [a |-> [k \in 1..((4 * nwords) \div SizeOf(T)) |-> TAt(T, raw, 0, k - 1, junk)],
   oob |-> {}]

\* The bitmask branch of read_record.
RecordBsparse(type_flag, prec_flag, raw, junk) ==
  IF type_flag # 0
  THEN (IF prec_flag # 0 THEN ReadShortBsparseRecord(raw, junk)
                         ELSE ReadBsparseRecord("int", raw, junk))
  ELSE (IF prec_flag # 0 THEN ReadBsparseRecord("float", raw, junk)
                         ELSE ReadBsparseRecord("double", raw, junk))

\* The windowed branch of read_record with the two floating widths swapped.
RecordWsparse_swapped(type_flag, prec_flag, raw, junk) ==
  IF type_flag # 0
  THEN (IF prec_flag # 0 THEN ReadWindowedSparseBuffer("short", raw, junk)
                         ELSE ReadWindowedSparseBuffer("int", raw, junk))
  ELSE (IF prec_flag # 0 THEN ReadWindowedSparseBuffer("double", raw, junk)
                         ELSE ReadWindowedSparseBuffer("float", raw, junk))

\* The windowed branch of read_record.
RecordWsparse(type_flag, prec_flag, raw, junk) ==
  IF type_flag # 0
  THEN (IF prec_flag # 0 THEN ReadWindowedSparseBuffer("short", raw, junk)
                         ELSE ReadWindowedSparseBuffer("int", raw, junk))
  ELSE (IF prec_flag # 0 THEN ReadWindowedSparseBuffer("float", raw, junk)
                         ELSE ReadWindowedSparseBuffer("double", raw, junk))

\* The family choice with the windowed flag tested first.
RecordFamily_wfirst(bsparse_flag, wsparse_flag) ==
  IF wsparse_flag # 0 THEN "wsparse"
  ELSE IF bsparse_flag # 0 THEN "bsparse" ELSE "dense"

\* The decoder family read_record picks from the two sparse flags.
RecordFamily(bsparse_flag, wsparse_flag) ==
  IF bsparse_flag # 0 THEN "bsparse"
  ELSE IF wsparse_flag # 0 THEN "wsparse" ELSE "dense"

\* What a call leaves behind.  status: "returned", "thrown" (a C++ exception
\* left the call) or "crashed"; out: the out-parameters the call assigned;
\* ret: the array handed back (read_record) or the caller's array
\* (read_record_stream); the rest records how the call ran.
CallResult(status, out, ret, family, d, nread, overread) ==
  [status |-> status, out |-> out, ret |-> ret, family |-> family, T |-> d.T,
   trace |-> d.trace, nb |-> d.nb, nread |-> nread, overread |-> overread]

\* No decoder ran.
NoDecode(T) == Decoded(T, 0, [a |-> <<>>, oob |-> {}], <<>>, 0, 0)

\* The word count without the footer word.
OutBufsize_nofooter(bufsize) == bufsize + 2

\* *out_bufsize = bufsize + 3;  // include header and footer
OutBufsize(bufsize) == bufsize + 3

\* The end of read_record, d being what the chosen decoder handed back: the
\* decoder has set *size, and read_record returns its array.
RecordReturn(T, out0, out_bufsize, family, nread, d) ==
  IF family # "dense" /\ d.size < 0
  THEN \* new T[*size] with a negative length throws
       CallResult("thrown",
                  [prec_flag |-> out0.prec_flag, type_flag |-> out0.type_flag,
                   size |-> d.size, out_bufsize |-> out_bufsize],
                  NoDecode(T).mem, family, NoDecode(d.T), nread, d.touched > nread)
  ELSE CallResult("returned",
                  [prec_flag |-> out0.prec_flag, type_flag |-> out0.type_flag,
                   size |-> d.size, out_bufsize |-> out_bufsize],
                  d.mem, family, d, nread, d.touched > nread)

\* read_record(filename, ptr, prec_flag, type_flag, size, out_bufsize) on a
\* file whose record at ptr has header h and is followed by the words data.
read_record(h, data, junk) ==
  LET hd      == read_header(h)
      bufsize == hd.bufsize
      T       == TypeOf(hd.type_flag, hd.prec_flag)
      out0    == [prec_flag |-> hd.prec_flag, type_flag |-> hd.type_flag,
                  size |-> bufsize]
  IN  IF bufsize < 0
      THEN \* new char[4*bufsize] with a negative length throws
           CallResult("thrown", out0, NoDecode(T).mem, "none", NoDecode(T), 0, FALSE)
      ELSE LET raw    == ReadWords(data, bufsize)
               family == RecordFamily(hd.bsparse_flag, hd.wsparse_flag)
           IN  RecordReturn(
                 T, out0, OutBufsize(bufsize), family, Len(raw),
                 CASE family = "bsparse" ->
                        RecordBsparse(hd.type_flag, hd.prec_flag, raw, junk)
                   [] family = "wsparse" ->
                        RecordWsparse(hd.type_flag, hd.prec_flag, raw, junk)
                   [] OTHER ->
                        Decoded(T, bufsize, ViewOf(T, raw, bufsize, junk), <<>>, 0, 0))

\* file->read((char*)arr, 4*bufsize): word i of the stream overwrites bytes
\* 4i..4i+3 of the caller's array, seen as an array of T.
StoreWord(T, mem, i, w) ==
  CASE T = "short" ->
         Store(Store(mem, 2 * i, S16(w)), 2 * i + 1, S16(w \div Pow2(16)))
    [] T = "double" ->
         LET k   == i \div 2
             old == IF k < Len(mem.a) THEN mem.a[k + 1] ELSE <<0, 0>>
         IN  Store(mem, k, [old EXCEPT ![(i % 2) + 1] = w])
    [] OTHER -> Store(mem, i, w)

RECURSIVE ReadInto(_, _, _, _)
ReadInto(T, mem, words, n) ==
  IF n <= 0 THEN mem
  ELSE StoreWord(T, ReadInto(T, mem, words, n - 1), n - 1, words[n])

\* The bitmask branch of read_record_stream.
StreamBsparse(type_flag, prec_flag, raw, junk, vec) ==
  IF type_flag # 0
  THEN (IF prec_flag # 0 THEN ReadShortBsparseRecordToVec(raw, junk, vec)
                         ELSE ReadBsparseRecordToVec("int", raw, junk, vec))
  ELSE (IF prec_flag # 0 THEN ReadBsparseRecordToVec("float", raw, junk, vec)
                         ELSE ReadBsparseRecordToVec("double", raw, junk, vec))

\* The windowed branch of read_record_stream.
StreamWsparse(type_flag, prec_flag, raw, junk, vec) ==
  IF type_flag # 0
  THEN (IF prec_flag # 0 THEN ReadWindowedSparseBufferShort(raw, junk, vec)
                         ELSE ReadWindowedSparseBufferInt(raw, junk, vec))
  ELSE (IF prec_flag # 0 THEN ReadWindowedSparseBufferFloat(raw, junk, vec)
                         ELSE ReadWindowedSparseBufferDouble(raw, junk, vec))

\* The decoder family read_record_stream picks from the two sparse flags.
StreamFamily(bsparse_flag, wsparse_flag) ==
  IF bsparse_flag # 0 THEN "bsparse"
  ELSE IF wsparse_flag # 0 THEN "wsparse" ELSE "dense"

\* The early return taken for negative sizes only.
StreamEmpty_negative(bufsize) == bufsize < 0

\* if (bufsize <= 0) return;
StreamEmpty(bufsize) == bufsize <= 0

\* The end of read_record_stream, d being what the chosen decoder handed
\* back: the decoder has set *size and filled the caller's array.
StreamReturn(out, family, nread, d) ==
  CallResult(IF family = "wsparse" /\ d.size < 0 THEN "crashed" ELSE "returned",
             [out EXCEPT !.size = d.size], d.mem, family, d, nread, d.touched > nread)

\* read_record_stream(file, loc, arr, prec_flag, type_flag, size) with the
\* caller's array vec; the result carries the stream position in pos.
read_record_stream(h, data, pos, loc, junk, vec) ==
  LET p0      == IF loc >= 0 THEN loc ELSE pos
      hd      == read_header(h)
      bufsize == hd.bufsize
      T       == TypeOf(hd.type_flag, hd.prec_flag)
      out     == [prec_flag |-> hd.prec_flag, type_flag |-> hd.type_flag,
                  size |-> bufsize]
  IN  IF StreamEmpty(bufsize)
      THEN [res |-> CallResult("returned", out, vec, "none", NoDecode(T), 0, FALSE),
            pos |-> p0 + 2]
      ELSE LET raw    == ReadWords(data, bufsize)
               family == StreamFamily(hd.bsparse_flag, hd.wsparse_flag)
           IN  [res |-> StreamReturn(
                          out, family, Len(raw),
                          CASE family = "bsparse" ->
                                 StreamBsparse(hd.type_flag, hd.prec_flag, raw, junk, vec)
                            [] family = "wsparse" ->
                                 StreamWsparse(hd.type_flag, hd.prec_flag, raw, junk, vec)
                            [] OTHER ->
                                 Decoded(T, bufsize, ReadInto(T, vec, raw, Len(raw)),
                                         <<>>, 0, 0)),
                pos |-> p0 + 2 + Len(raw)]

(* ------------------------------------------------- the records generated *)

\* The j-th value stored in a generated payload: distinct, positive.
ValOf(j) == 10 + j

\* The element of T a generated value v is stored as.
ElemOf(T, v) == IF T = "double" THEN <<v, -v>> ELSE v

\* The words holding the values vs as consecutive elements of T.
RECURSIVE EncVals(_, _)
EncVals(T, vs) ==
  IF vs = <<>> THEN <<>>
  ELSE CASE T = "short" ->
              IF Len(vs) = 1
              THEN <<vs[1] % Pow2(16)>>
              ELSE <<(vs[1] % Pow2(16)) + Pow2(16) * S16(vs[2])>>
                   \o EncVals(T, SubSeq(vs, 3, Len(vs)))
         [] T = "double" -> <<vs[1], -vs[1]>> \o EncVals(T, Tail(vs))
         [] OTHER -> <<vs[1]>> \o EncVals(T, Tail(vs))

\* The values ValOf(from+1) .. ValOf(from+n).
ValSeq(from, n) == [j \in 1..n |-> ValOf(from + j)]

\* The number of bits of bitcod below bit i that are set.
\* Bit i of the 32-bit pattern of the int x.
BitOf(x, i) == IF i >= 31 THEN (IF i = 31 /\ x < 0 THEN 1 ELSE 0) ELSE (x \div Pow2(i)) % 2

RECURSIVE BitsBelow(_, _)
BitsBelow(bitcod, i) ==
  IF i <= 0 THEN 0 ELSE BitsBelow(bitcod, i - 1) + BitOf(bitcod, i - 1)

\* The number of bits of the bitcod word: size goes up to it.
WordBits == 8 * SizeOf("int")

\* The int whose set bits are the positions in S (bit 31 is the sign).
RECURSIVE BitPattern(_)
BitPattern(S) ==
  IF S = {} THEN 0
  ELSE LET b == CHOOSE x \in S : TRUE
       IN  (IF b = 31 THEN (-Pow2(30)) * 2 ELSE Pow2(b)) + BitPattern(S \ {b})

\* Bitcodes of full-width records: the top bits alone and with low bits.
WideBitcodes == {BitPattern(S) : S \in {{31}, {30}, {0, 31}, {0, 30, 31}}}

\* The windows a generated windowed payload is built from, as the loc and
\* len words of each: an isolated value, a run, a constant run, or a window
\* of length 0.  Indices up to MaxSize occur, so a window may leave [0, size).
GenWindows ==
  [kind : {"isolated"}, loc : 1..MaxSize, len : {0}]
  \cup [kind : {"run"}, loc : {-st : st \in 0..MaxSize}, len : 1..MaxSize]
  \cup [kind : {"constant"}, loc : {-st : st \in 0..MaxSize},
        len : {-n : n \in 0..MaxSize}]

\* The number of values stored with a window.
WinVals(w) == IF w.kind = "run" THEN w.len ELSE 1

\* The words of a window: loc, len (not for an isolated value), the values.
WinWords(T, w) ==
  (IF w.kind = "isolated" THEN 1 ELSE 2) + ElemWords(T, WinVals(w))

\* All sequences of windows whose words fit in budget words.
RECURSIVE WinSeqs(_, _)
WinSeqs(T, budget) ==
  {<<>>} \cup UNION {{<<w>> \o s : s \in WinSeqs(T, budget - WinWords(T, w))} :
                     w \in {x \in GenWindows : WinWords(T, x) <= budget}}

\* The payload words of a sequence of windows; from values were used before.
RECURSIVE EncWins(_, _, _)
EncWins(T, ws, from) ==
  IF ws = <<>> THEN <<>>
  ELSE LET w == ws[1]
       IN  (IF w.kind = "isolated" THEN <<w.loc>> ELSE <<w.loc, w.len>>)
           \o EncVals(T, ValSeq(from, WinVals(w)))
           \o EncWins(T, Tail(ws), from + WinVals(w))

\* The 8 header bytes of a record: buffer size, three unused bytes, flags.
MakeHeader(bufsize, bs, wsp, zl, pr, ty) ==
  <<ByteOf(bufsize, 0), ByteOf(bufsize, 1), ByteOf(bufsize, 2), ByteOf(bufsize, 3),
    0, 0, 0, 8 * bs + 16 * wsp + 32 * zl + 64 * pr + 128 * ty>>

\* The generated records: [h |-> header, data |-> payload, gen |-> how the
\* payload was built].
BitmaskRecords ==
  {LET T   == TypeOf(ty, pr)
       vs  == ValSeq(0, BitsBelow(bc, sz))
       pay == <<sz, bc>> \o EncVals(T, vs)
   IN  [h |-> MakeHeader(Len(pay), 1, wsp, zl, pr, ty), data |-> pay,
        gen |-> [shape |-> "bitmask", T |-> T, size |-> sz, bitcod |-> bc,
                 vals |-> vs, wins |-> <<>>]] :
   <<sz, bc, wsp, zl, pr, ty>> \in
     {x \in (1..MaxSize) \X (0..(Pow2(MaxSize) - 1)) \X {0, 1} \X {0, 1} \X {0, 1} \X {0, 1} :
        x[2] < Pow2(x[1])}
     \cup ({WordBits} \X WideBitcodes \X {0, 1} \X {0, 1} \X {0, 1} \X {0, 1})}

\* A windowed record declares size MaxSize; a record without windows has a
\* window count of 0 or -1.
WindowedRecords ==
  UNION {UNION {
    {LET T   == TypeOf(ty, pr)
         pay == <<MaxSize, IF ws = <<>> THEN nw0 ELSE Len(ws)>> \o EncWins(T, ws, 0)
     IN  [h |-> MakeHeader(Len(pay), 0, 1, zl, pr, ty), data |-> pay,
          gen |-> [shape |-> "windowed", T |-> T, size |-> MaxSize, bitcod |-> 0,
                   vals |-> <<>>, wins |-> ws]] :
     <<nw0, zl>> \in {0, -1} \X {0, 1}} :
    ws \in WinSeqs(TypeOf(ty, pr), MaxBuf - 2)} : <<pr, ty>> \in {0, 1} \X {0, 1}}

DenseRecords ==
  {[h |-> MakeHeader(n, 0, 0, zl, pr, ty), data |-> ValSeq(0, n),
    gen |-> [shape |-> "dense", T |-> TypeOf(ty, pr), size |-> n, bitcod |-> 0,
             vals |-> <<>>, wins |-> <<>>]] :
   <<n, zl, pr, ty>> \in (1..MaxBuf) \X {0, 1} \X {0, 1} \X {0, 1}}

EmptyRecords ==
  {[h |-> MakeHeader(n, bs, wsp, zl, pr, ty), data |-> <<>>,
    gen |-> [shape |-> "empty", T |-> TypeOf(ty, pr), size |-> n, bitcod |-> 0,
             vals |-> <<>>, wins |-> <<>>]] :
   <<n, bs, wsp, zl, pr, ty>> \in {0, -1} \X {0, 1} \X {0, 1} \X {0, 1} \X {0, 1} \X {0, 1}}

Records == BitmaskRecords \cup WindowedRecords \cup DenseRecords \cup EmptyRecords

\* What an out-of-bounds or uninitialised read may return.
Junk == {0, 1}

\* The old data of the caller's destination array.
OldElem(T, i) == IF T = "double" THEN <<-(i + 1), -(i + 1)>> ELSE -(i + 1)

\* The caller's destination array: room for MaxBuf words and for a vector of
\* the largest size a record declares.
CallerArray(T) ==
  [a |-> [i \in 1..Max((4 * MaxBuf + SizeOf(T) - 1) \div SizeOf(T), WordBits) |->
            OldElem(T, i - 1)],
   oob |-> {}]

(* ------------------------------------------------------ the state machine *)

\* No call was made yet.
Idle == CallResult("idle", [size |-> 0], NoDecode("int").mem, "none", NoDecode("int"), 0, FALSE)

\* No header stream and no text buffer are under test.
NoStream == stream = <<>> /\ rh = [status |-> "none"]

NoText ==
  /\ text = [shape |-> "none"]
  /\ rn = [status |-> "none"] /\ re = [status |-> "none"] /\ ri = [status |-> "none"]

\* No mesh is being converted, by one caller or by two threads.
NoMesh ==
  /\ mesh = [shape |-> "none"] /\ rv = [status |-> "none"]
  /\ tin = <<>> /\ heap = [status |-> "none"] /\ th = <<>>

\* No node file is being read.
NoNodes == nfile = [shape |-> "none"] /\ rd = [status |-> "none"]

\* No matrix is being assembled.
NoMatrix == full = [shape |-> "none"] /\ ra = [status |-> "none"]

Init ==
  /\ \E r \in Records :
       /\ hdr = r.h
       /\ payload = r.data
       /\ gen = r.gen
       /\ arr = CallerArray(r.gen.T)
       /\ start \in (IF r.gen.shape = "windowed" THEN {0} ELSE 0..MaxStart)
       /\ fpos = start
       /\ rr = Idle
       /\ rs = Idle
  /\ NoStream
  /\ NoText
  /\ NoMesh
  /\ NoNodes
  /\ NoMatrix

\* An out-of-bounds write or read is undefined behaviour: the call may go
\* on to return, or the process may die.
Outcome(res) ==
  IF res.status = "returned" /\ (res.ret.oob # {} \/ res.overread)
  THEN {res, [res EXCEPT !.status = "crashed"]}
  ELSE {res}

\* A caller runs read_record on the record.
ReadRecord ==
  /\ rr.status = "idle"
  /\ \E junk \in Junk : \E res \in Outcome(read_record(hdr, payload, junk)) :
       rr' = res
  /\ UNCHANGED <<hdr, payload, start, gen, arr, fpos, rs, stream, rh, text, rn, re, ri, mesh, rv, tin, heap, th, nfile, rd, full, ra>>

\* A caller runs read_record_stream on the record, seeking to it
\* (loc = start) or reading on from the stream position (loc = -1).
ReadRecordStream ==
  /\ rs.status = "idle"
  /\ \E junk \in Junk : \E loc \in {-1, start} :
       \E c \in {read_record_stream(hdr, payload, fpos, loc, junk, arr)} :
         \E res \in Outcome(c.res) :
           /\ rs' = res
           /\ arr' = res.ret
           /\ fpos' = c.pos
  /\ UNCHANGED <<hdr, payload, start, gen, rr, stream, rh, text, rn, re, ri, mesh, rv, tin, heap, th, nfile, rd, full, ra>>

Next == ReadRecord \/ ReadRecordStream

Spec == Init /\ [][Next]_vars

(* ================================================================ claims *)

\* The buffer size the record's header declares, from its bytes.
BufSize == read_header(hdr).bufsize

\* Bit k of the header's flag byte.
FlagBit(k) == (hdr[8] \div Pow2(k)) % 2

\* The element type the flag byte stands for: integer (bit 7) or floating,
\* narrow (bit 6) or wide.
FlagType ==
  CASE FlagBit(7) = 1 /\ FlagBit(6) = 1 -> "short"
    [] FlagBit(7) = 1 /\ FlagBit(6) = 0 -> "int"
    [] FlagBit(7) = 0 /\ FlagBit(6) = 1 -> "float"
    [] OTHER -> "double"

\* The two calls, with the array each one filled.
Calls == {rr, rs}

\* A call ran a decoder to its end and returned.
Returned(c) == c.status = "returned"

\* Element i of the array a call filled.
Out(c, i) == c.ret.a[i + 1]

(* ---- C1 ---- *)

\* The value the bitmask format puts at position i: the k-th packed value,
\* k being the number of set bits below bit i, if bit i is set, else zero.
BitmaskExpected(i) ==
  IF BitOf(gen.bitcod, i) = 1
  THEN ElemOf(gen.T, gen.vals[BitsBelow(gen.bitcod, i) + 1])
  ELSE Zero(gen.T)

\* C1: a bitmask record of size 1..MaxSize or 32, any bitcode below 2^size and its
\* packed values decodes, in read_record and in read_record_stream and for
\* all four element types, to exactly size elements, position i holding the
\* k-th packed value (k = set bits below i) if bit i is set and zero if not;
\* the int16 decoders, which also compute the padded count nb, give the same.
C1_BitmaskDecode ==
  \A c \in Calls :
    (Returned(c) /\ gen.shape = "bitmask") =>
      /\ c.family = "bsparse"
      /\ c.out.size = gen.size
      /\ c.ret.oob = {}
      /\ \A i \in 0..(gen.size - 1) : Out(c, i) = BitmaskExpected(i)
      /\ c = rr => Len(c.ret.a) = gen.size
      /\ c = rs => \A i \in gen.size..(Len(c.ret.a) - 1) : Out(c, i) = OldElem(gen.T, i)

\* Both calls decoded an int16 bitmask record of size 32 whose bitcode has
\* bits 0, 30 and 31 set: an odd population count, so that nb was padded.
C1_Witness ==
  /\ Returned(rr) /\ Returned(rs)
  /\ gen.shape = "bitmask" /\ gen.T = "short" /\ gen.size = WordBits
  /\ gen.bitcod < 0 /\ BitsBelow(gen.bitcod, gen.size) = 3
  /\ rr.nb = 4 /\ rs.nb = 4
  /\ Out(rr, 31) = ValOf(3) /\ Out(rs, 31) = ValOf(3)

(* ---- C2 ---- *)

\* The indices a decoded window declares: loc for an isolated value, else
\* the |len| indices from -loc on.
WinRange(e) ==
  CASE e.kind = "isolated" -> {e.loc}
    [] e.kind = "run" -> (-e.loc)..(-e.loc + e.len - 1)
    [] OTHER -> (-e.loc)..(-e.loc - e.len - 1)

\* The value the window puts at index i: the value following loc, the
\* (i - start)-th value following len, or the one value following len.
WinValue(T, e, i) ==
  CASE e.kind = "isolated" -> TAt(T, payload, e.p0 + 1, 0, 0)
    [] e.kind = "run" -> TAt(T, payload, e.p0 + 2, i + e.loc, 0)
    [] OTHER -> TAt(T, payload, e.p0 + 2, 0, 0)

\* The window e changed the array exactly on its declared range.
WinWritesExactly(T, e) ==
  /\ Len(e.after.a) = Len(e.before.a)
  /\ \A i \in 0..(Len(e.before.a) - 1) :
       e.after.a[i + 1] = IF i \in WinRange(e) THEN WinValue(T, e, i)
                          ELSE e.before.a[i + 1]
  /\ e.after.oob = e.before.oob
                   \cup {<<i, WinValue(T, e, i)>> :
                         i \in {j \in WinRange(e) : j >= Len(e.before.a)}}

\* C2: every window the windowed decoders decode, in both entry points and
\* for all element types, with loc > 0, or with loc <= 0 and len > 0, or with
\* loc <= 0 and len < 0, writes exactly its declared range: the single
\* following value at loc; the next len values in order at [-loc, -loc+len);
\* the one following value at each of [-loc, -loc-len); nothing else changes.
C2_WindowWritesExactly ==
  \A c \in Calls :
    (c.status \in {"returned", "crashed"} /\ c.family = "wsparse" /\ ~c.overread) =>
      \A k \in 1..Len(c.trace) :
        (c.trace[k].kind = "isolated" \/ c.trace[k].len # 0) =>
          WinWritesExactly(c.T, c.trace[k])

\* A call decoded a run of two values followed by another window, and the
\* other call a record with a constant run of length two.
C2_Witness ==
  /\ Returned(rr) /\ Returned(rs) /\ rr.family = "wsparse"
  /\ Len(rr.trace) = 2
  /\ \E k \in 1..2 : rr.trace[k].kind = "constant" /\ rr.trace[k].len = -2
                     /\ rr.trace[k].after.a # rr.trace[k].before.a
  /\ \E k \in 1..2 : rs.trace[k].kind = "run"
                     /\ rs.trace[k].after.a # rs.trace[k].before.a
                     /\ rs.trace[k].after.oob = {}

(* ---- C3 ---- *)

\* Every window a call decoded lies within [0, size).
WindowsInBounds(c) ==
  \A k \in 1..Len(c.trace) : \A i \in WinRange(c.trace[k]) : i >= 0 /\ i < c.out.size

\* No two windows a call decoded share an index.
WindowsDisjoint(c) ==
  \A j, k \in 1..Len(c.trace) :
    j < k => WinRange(c.trace[j]) \cap WinRange(c.trace[k]) = {}

\* The indices some window of the call covers.
Covered(c) == UNION {WinRange(c.trace[k]) : k \in 1..Len(c.trace)}

\* C3: after a windowed decode of a payload whose windows are in bounds and
\* do not overlap, every index of [0, size) that no window covers holds
\* zero, in read_record and in read_record_stream (whose destination held
\* non-zero data before), also for a window count <= 0.
C3_UntouchedIsZero ==
  \A c \in Calls :
    (Returned(c) /\ c.family = "wsparse" /\ ~c.overread
       /\ WindowsInBounds(c) /\ WindowsDisjoint(c)) =>
      \A i \in (0..(c.out.size - 1)) \ Covered(c) : Out(c, i) = Zero(c.T)

\* The same, for payloads none of whose windows has length 0: this holds,
\* so a window of length 0 is what C3_UntouchedIsZero fails on.
C3_UntouchedIsZeroNoEmptyWindow ==
  \A c \in Calls :
    (Returned(c) /\ c.family = "wsparse" /\ ~c.overread
       /\ WindowsInBounds(c) /\ WindowsDisjoint(c)
       /\ \A k \in 1..Len(c.trace) :
            c.trace[k].kind = "isolated" \/ c.trace[k].len # 0) =>
      \A i \in (0..(c.out.size - 1)) \ Covered(c) : Out(c, i) = Zero(c.T)

(* ---- C4 ---- *)

\* word_stride = ceil(sizeof(T)/4) words per value.
WordStride(T) == (SizeOf(T) + 3) \div 4

\* C4: each decoded window advances the payload cursor past its loc word
\* (and len word) and by word_stride = ceil(sizeof(T)/4) words for an
\* isolated or constant-run window, word_stride*len for a run, for every
\* element type, and the next window is read where the cursor then stands.
C4_CursorAdvance ==
  \A c \in Calls :
    (c.status \in {"returned", "crashed"} /\ c.family = "wsparse" /\ ~c.overread) =>
      \A k \in 1..Len(c.trace) :
        LET e == c.trace[k]
        IN  /\ e.p1 = e.p0 + (IF e.kind = "isolated" THEN 1 ELSE 2)
                      + WordStride(c.T) * (IF e.kind = "run" THEN e.len ELSE 1)
            /\ k > 1 => e.p0 = c.trace[k - 1].p1

\* The same for the element types of 4 and 8 bytes only: this holds, so the
\* int16 decoders are what C4_CursorAdvance fails on.
C4_CursorAdvanceWide ==
  \A c \in Calls :
    (c.status \in {"returned", "crashed"} /\ c.family = "wsparse" /\ ~c.overread
       /\ c.T # "short") =>
      \A k \in 1..Len(c.trace) :
        LET e == c.trace[k]
        IN  /\ e.p1 = e.p0 + (IF e.kind = "isolated" THEN 1 ELSE 2)
                      + WordStride(c.T) * (IF e.kind = "run" THEN e.len ELSE 1)
            /\ k > 1 => e.p0 = c.trace[k - 1].p1

(* ---- C5 ---- *)

\* A window of the call reaches outside [0, size).
HasWindowOutOfRange(c) ==
  \E k \in 1..Len(c.trace) : \E i \in WinRange(c.trace[k]) : i < 0 \/ i >= c.out.size

\* C5: a windowed decode of a complete payload that meets a window reaching
\* outside [0, size) does not return normally (it fails with an error), and
\* writes nothing outside [0, size).
C5_OutOfRangeFails ==
  \A c \in Calls :
    (c.status # "idle" /\ c.family = "wsparse" /\ ~c.overread
       /\ HasWindowOutOfRange(c)) =>
      /\ c.status # "returned"
      /\ c.ret.oob = {}

(* ---- C6 ---- *)

\* The family the format assigns to the flag byte: bitmask if bit 3 is set,
\* else windowed if bit 4 is set, else dense.
FlagFamily ==
  IF FlagBit(3) = 1 THEN "bsparse" ELSE IF FlagBit(4) = 1 THEN "wsparse" ELSE "dense"

\* A call got as far as choosing a decoder: read_record for a buffer size
\* >= 0, read_record_stream for a buffer size > 0.
Dispatched(c) ==
  /\ c.status # "idle"
  /\ (c = rr /\ rr.status # "idle") => BufSize >= 0
  /\ (c = rs /\ rs.status # "idle") => BufSize > 0

\* The call handed the payload words on unchanged: the array holds the
\* typed view of the payload (and, in the caller's array, the old data after).
Verbatim(c) ==
  /\ c.ret.oob = {}
  /\ \A i \in 0..(((4 * BufSize) \div SizeOf(FlagType)) - 1) :
       Out(c, i) = TAt(FlagType, payload, 0, i, 0)
  /\ c = rr => Len(c.ret.a) = (4 * BufSize) \div SizeOf(FlagType)
  /\ c = rs => \A i \in ((4 * BufSize + SizeOf(FlagType) - 1) \div SizeOf(FlagType))
                          ..(Len(c.ret.a) - 1) :
                 Out(c, i) = OldElem(FlagType, i)

\* C6: for every flag byte both dispatchers pick the bitmask decoder when
\* bit 3 is set (bit 4 set or not), the windowed decoder when only bit 4 is
\* set, and hand the buffer_size payload words on verbatim otherwise,
\* whatever the reserved bit 5; and the call ends normally unless the payload
\* made the decoder leave its buffers.
C6_DispatchFamily ==
  \A c \in Calls :
    Dispatched(c) =>
      /\ c.family = FlagFamily
      /\ (c.family = "dense" => Returned(c) /\ Verbatim(c) /\ c.out.size = BufSize)
      /\ (c.ret.oob = {} /\ ~c.overread) => Returned(c)

\* Both calls met a record with the bitmask, windowed and reserved bits all
\* set and decoded it as a bitmask record.
C6_Witness ==
  /\ Returned(rr) /\ Returned(rs)
  /\ FlagBit(3) = 1 /\ FlagBit(4) = 1 /\ FlagBit(5) = 1
  /\ rr.family = "bsparse" /\ rs.family = "bsparse"
  /\ BufSize > 2

(* ---- C7 ---- *)

\* C7: on a record with buffer_size > 0 whose payload holds every word the
\* decoder reads, read_record and read_record_stream, once both returned,
\* chose the same decoder family and the same element type (int16/int32 for
\* the integer flag, float32/float64 without it, narrow flag choosing the
\* first), report the same size and hold the same element values.
C7_EntryPointsAgree ==
  (Returned(rr) /\ Returned(rs) /\ BufSize > 0 /\ ~rr.overread /\ ~rs.overread) =>
    /\ rr.family = rs.family
    /\ rr.T = FlagType /\ rs.T = FlagType
    /\ rr.out.size = rs.out.size
    /\ rr.out.prec_flag = rs.out.prec_flag /\ rr.out.type_flag = rs.out.type_flag
    /\ Len(rr.ret.a) <= Len(rs.ret.a)
    /\ \A i \in 0..(Len(rr.ret.a) - 1) : Out(rr, i) = Out(rs, i)

\* Both calls decoded a float64 windowed record of two windows.
C7_Witness ==
  /\ Returned(rr) /\ Returned(rs) /\ BufSize > 0
  /\ rr.family = "wsparse" /\ rr.T = "double" /\ Len(rr.trace) = 2
  /\ ~rr.overread /\ ~rs.overread
  /\ \E i \in 0..(Len(rr.ret.a) - 1) : Out(rr, i) # Zero("double")

(* ---- C8 ---- *)

\* C8: every call of either entry point that decoded a record reports
\* out_word_count = buffer_size + 3.
C8_BothReportWordCount ==
  \A c \in Calls :
    (Returned(c) /\ Dispatched(c)) =>
      /\ "out_bufsize" \in DOMAIN c.out
      /\ c.out.out_bufsize = BufSize + 3

\* C8 as amended: read_record reports out_bufsize = buffer_size + 3 for every
\* record it decodes; read_record_stream has no such output: for a record
\* with buffer_size >= 0 it leaves its stream buffer_size + 2 words after the
\* record's start, one footer word before the next record.
C8_WordCount ==
  /\ Returned(rr) =>
       /\ "out_bufsize" \in DOMAIN rr.out
       /\ rr.out.out_bufsize = BufSize + 3
  /\ Returned(rs) =>
       /\ DOMAIN rs.out = {"prec_flag", "type_flag", "size"}
       /\ (BufSize >= 0 /\ Len(payload) >= BufSize) => fpos + 1 = start + BufSize + 3

\* Both calls returned on a record of at least three payload words that
\* does not start the file.
C8_Witness ==
  /\ Returned(rr) /\ Returned(rs)
  /\ BufSize >= 3 /\ start > 0
  /\ rr.out.out_bufsize = BufSize + 3
  /\ fpos = start + BufSize + 2

(* ---- C9 ---- *)

\* C9: the size a dispatcher reports is the number of elements of the vector
\* it decoded: the payload's declared size for a bitmask or windowed record,
\* and for every record kind and element type the element count of the
\* array read_record returns.
C9_SizeIsElementCount ==
  /\ \A c \in Calls :
       (Returned(c) /\ Dispatched(c) /\ ~c.overread) =>
         (c.family \in {"bsparse", "wsparse"} => c.out.size = payload[1])
  /\ (Returned(rr) /\ ~rr.overread) => rr.out.size = Len(rr.ret.a)

\* The same for sparse records and dense records of 4-byte elements: this
\* holds, so dense records of int16 or float64 are what C9 fails on.
C9_SizeIsElementCountWords ==
  /\ \A c \in Calls :
       (Returned(c) /\ Dispatched(c) /\ ~c.overread) =>
         (c.family \in {"bsparse", "wsparse"} => c.out.size = payload[1])
  /\ (Returned(rr) /\ ~rr.overread
        /\ (rr.family = "dense" => rr.T \in {"int", "float"})) =>
       rr.out.size = Len(rr.ret.a)

(* ---- C10 ---- *)

\* C10: read_record_stream on a record whose buffer_size is <= 0 returns
\* normally, leaves every element of the destination as it was, and reads
\* nothing after the 8 header bytes.
C10_EmptyRecordNoOp ==
  (rs.status # "idle" /\ BufSize <= 0) =>
    /\ rs.status = "returned"
    /\ arr = CallerArray(FlagType)
    /\ rs.nread = 0
    /\ fpos = start + 2
    /\ rs.out.size = BufSize

\* read_record_stream returned on a record of buffer size -1 whose bitmask
\* flag is set, after read_record threw on it.
C10_Witness ==
  /\ rs.status = "returned" /\ BufSize = -1 /\ FlagBit(3) = 1
  /\ rr.status = "thrown"
  /\ start > 0

(* ============================================== the header on its stream *)

Min(a, b) == IF a <= b THEN a ELSE b

\* The eight bytes of raw after binFile->read(raw, 8) on a stream that holds
\* the bytes s: the bytes read, then what the fresh allocation held (any
\* value; junk stands for it).
HeaderBytes(s, junk) == [i \in 1..8 |-> IF i <= Len(s) THEN s[i] ELSE junk]

\* The call of read_header on a stream that holds the bytes s: the values
\* it hands back and the number of bytes the stream gave up.  The function
\* has no error path: it does not test the stream after the read.
ReadHeaderCall(s, junk) ==
  [status   |-> "returned",
   h        |-> read_header(HeaderBytes(s, junk)),
   consumed |-> Min(8, Len(s))]

\* The header bytes under test: every weight of the size field, both signs
\* of its top byte, filler bytes 4-6, and byte 7 with every combination of
\* flag bits over clear and set low bits.
SizeBytes == {0, 1, 255} \X {0, 2} \X {0, 3} \X {0, 127, 128, 255}

FillerBytes == {<<0, 0, 0>>, <<1, 2, 3>>, <<255, 255, 255>>}

FlagBytes == {8 * f + l : f \in 0..31, l \in {0, 7}}

HeaderStreams ==
  {<<s[1], s[2], s[3], s[4], m[1], m[2], m[3], b>> :
     s \in SizeBytes, m \in FillerBytes, b \in FlagBytes}

\* Streams that end inside the header.
TruncatedStreams ==
  {SubSeq(h, 1, k) : h \in {<<1, 0, 0, 0, 0, 0, 0, 8>>, <<255, 255, 255, 255, 0, 0, 0, 208>>},
                     k \in 0..7}

\* What an uninitialised char may hold.
JunkBytes == {0, 255}

\* The record decoders and the text decoders are not under test.
NoRecord ==
  /\ hdr = MakeHeader(0, 0, 0, 0, 0, 0) /\ payload = <<>> /\ gen = [shape |-> "none"]
  /\ arr = CallerArray("int") /\ start = 0 /\ fpos = 0 /\ rr = Idle /\ rs = Idle

HeaderInit ==
  /\ NoRecord
  /\ NoText
  /\ NoMesh
  /\ NoNodes
  /\ NoMatrix
  /\ stream \in HeaderStreams \cup TruncatedStreams
  /\ rh = [status |-> "idle"]

\* A caller runs read_header on the stream.
ReadHeader ==
  /\ rh.status = "idle"
  /\ \E junk \in JunkBytes : rh' = ReadHeaderCall(stream, junk)
  /\ UNCHANGED <<hdr, payload, start, gen, arr, fpos, rr, rs, stream, text, rn, re, ri, mesh, rv, tin, heap, th, nfile, rd, full, ra>>

HeaderNext == ReadHeader

HeaderSpec == HeaderInit /\ [][HeaderNext]_vars

(* ---- C11 ---- *)

\* Bit k of a byte.
BitOfByte(b, k) == (b \div Pow2(k)) % 2

\* C11: on a stream holding a whole header, read_header consumes exactly 8
\* bytes, returns as buffer size the 32-bit integer whose bytes, least
\* significant first, are bytes 0-3, and sets the bitmask-sparse,
\* windowed-sparse, reserved, narrow-precision and integer-type flags to bits
\* 3, 4, 5, 6 and 7 of byte 7, each 0 or 1 also when the top bit of byte 7 is
\* set, whatever bytes 4-6 hold.
C11_ReadHeader ==
  (rh.status = "returned" /\ Len(stream) = 8) =>
    /\ rh.consumed = 8
    /\ \A k \in 0..3 : ByteOf(rh.h.bufsize, k) = stream[k + 1]
    /\ rh.h.bufsize < 0 <=> stream[4] >= 128
    /\ rh.h.bsparse_flag = BitOfByte(stream[8], 3)
    /\ rh.h.wsparse_flag = BitOfByte(stream[8], 4)
    /\ rh.h.zlib_flag = BitOfByte(stream[8], 5)
    /\ rh.h.prec_flag = BitOfByte(stream[8], 6)
    /\ rh.h.type_flag = BitOfByte(stream[8], 7)
    /\ {rh.h.bsparse_flag, rh.h.wsparse_flag, rh.h.zlib_flag, rh.h.prec_flag,
        rh.h.type_flag} \subseteq {0, 1}

\* read_header returned on a header whose byte 7 has its top bit set over
\* clear bits 5 and 6, whose bytes 4-6 are not zero and whose size is
\* negative.
C11_Witness ==
  /\ rh.status = "returned" /\ Len(stream) = 8
  /\ stream[8] = 159 /\ stream[5] = 1 /\ stream[4] = 128
  /\ rh.h.type_flag = 1 /\ rh.h.prec_flag = 0 /\ rh.h.bsparse_flag = 1
  /\ rh.h.bufsize < 0

(* ---- C12 ---- *)

\* C12: a truncated input is detected and signalled; here, when the stream
\* holds fewer than the 8 bytes of a header, read_header reports a truncation
\* and derives no header values from the partial read.
C12_TruncationSignalled ==
  (rh.status # "idle" /\ Len(stream) < 8) => rh.status = "truncated"

(* =============================================== fixed-width text fields *)

\* A text buffer is a sequence of character codes; character i of the C
\* string is raw[i+1], read with W (a read outside the buffer yields junk).
\* A double is held exactly, as [sign, digs, e] standing for
\* sign * (digs[1] + digs[2]/10 + digs[3]/100 + ...) * 10^e.

\* The code of a character.
Code(c) ==
  CASE c = " " -> 32 [] c = "+" -> 43 [] c = "-" -> 45 [] c = "." -> 46
    [] c = "0" -> 48 [] c = "E" -> 69 [] c = "\n" -> 10 [] c = "\r" -> 13

\* Some read of the characters lo..hi falls outside the buffer.
Outside(raw, lo, hi) == lo <= hi /\ (lo < 0 \/ hi >= Len(raw))

\* The loop with a blank taken as the digit 0 instead of skipped.
RECURSIVE AtoiLoop_blankzero(_, _, _, _, _, _)
AtoiLoop_blankzero(raw, junk, intsz, p, c, val) ==
  IF c >= intsz THEN val
  ELSE AtoiLoop_blankzero(raw, junk, intsz, p + 1, c + 1,
                          val * 10 + (IF W(raw, p, junk) = Code(" ") THEN 0
                                      ELSE W(raw, p, junk) - Code("0")))

\* The loop shared by fast_atoi and fast_atoi2, over the intsz characters
\* from p on: blanks are skipped, any other character is taken as a digit.
RECURSIVE AtoiLoop(_, _, _, _, _, _)
AtoiLoop(raw, junk, intsz, p, c, val) ==
  IF c >= intsz THEN val
  ELSE IF W(raw, p, junk) = Code(" ")
       THEN AtoiLoop(raw, junk, intsz, p + 1, c + 1, val)
       ELSE AtoiLoop(raw, junk, intsz, p + 1, c + 1,
                     val * 10 + (W(raw, p, junk) - Code("0")))

\* fast_atoi: the index is advanced before each read, so the field is the
\* intsz characters after i.
fast_atoi(raw, junk, intsz, i) ==
  [val |-> AtoiLoop(raw, junk, intsz, i + 1, 0, 0), i |-> i + Max(intsz, 0)]

\* fast_atoi2: the index is advanced after each read, so the field is the
\* intsz characters from i on.
fast_atoi2(raw, junk, intsz, i) ==
  [val |-> AtoiLoop(raw, junk, intsz, i, 0, 0), i |-> i + Max(intsz, 0)]

\* checkneg: whether one of the intsz characters from i on is a '-'; the
\* index is advanced after each read.
checkneg(raw, junk, intsz, i) ==
  [found |-> \E c \in 0..(intsz - 1) : W(raw, i + c, junk) = Code("-"),
   i     |-> i + Max(intsz, 0)]

(* ----------------------------------------------------------- read_nblock *)

\* nread: the digits after the point (the width less sign, first digit,
\* point and the four characters of the exponent).
NRead(fltsz) == Max(fltsz - 7, 0)

\* The scaling by the exponent: none when its two digits give a value that
\* is not positive, up when its sign character is '+', down otherwise.
Exponent(signch, ivalue) ==
  IF ivalue <= 0 THEN 0 ELSE IF signch = Code("+") THEN ivalue ELSE -ivalue

\* The double read from the fltsz characters from i on.
ParseFloatField(raw, junk, fltsz, i) ==
  [sign |-> IF W(raw, i, junk) = Code("-") THEN -1 ELSE 1,
   digs |-> [j \in 1..(1 + NRead(fltsz)) |->
               W(raw, IF j = 1 THEN i + 1 ELSE i + 1 + j, junk) - Code("0")],
   e    |-> Exponent(W(raw, i + 4 + NRead(fltsz), junk),
                     10 * (W(raw, i + 5 + NRead(fltsz), junk) - Code("0"))
                     + (W(raw, i + 6 + NRead(fltsz), junk) - Code("0")))]

\* 0.0
DZero == [sign |-> 1, digs |-> <<0>>, e |-> 0]

\* The field loop with its end-of-line test one character late,
\* raw[i + EOL].
NblockField_late(raw, junk, fltsz, EOL, k, st) ==
  IF W(raw, st.i + EOL, junk) = Code("\n")
  THEN [st EXCEPT !.i = @ + EOL, !.brk = TRUE]
  ELSE [st EXCEPT !.i = @ + 7 + NRead(fltsz),
                  !.t = @ + 1,
                  !.nodes = Store(@, k * 6 + st.t, ParseFloatField(raw, junk, fltsz, st.i))]

\* One turn of the loop over the fields of node k: at an end of line the
\* loop is left with the index past it; else the field is read and stored.
NblockField(raw, junk, fltsz, EOL, k, st) ==
  IF W(raw, st.i + EOL - 1, junk) = Code("\n")
  THEN [st EXCEPT !.i = @ + EOL, !.brk = TRUE,
                  !.over = @ \/ Outside(raw, st.i + EOL - 1, st.i + EOL - 1)]
  ELSE [st EXCEPT !.i = @ + 7 + NRead(fltsz),
                  !.t = @ + 1,
                  !.nodes = Store(@, k * 6 + st.t, ParseFloatField(raw, junk, fltsz, st.i)),
                  !.over = @ \/ Outside(raw, st.i, st.i + 6 + NRead(fltsz))
                             \/ Outside(raw, st.i + EOL - 1, st.i + EOL - 1)]

\* for (t = 0; t < 7; ++t)
RECURSIVE NblockFields(_, _, _, _, _, _)
NblockFields(raw, junk, fltsz, EOL, k, st) ==
  IF st.t >= 7 \/ st.brk THEN st
  ELSE NblockFields(raw, junk, fltsz, EOL, k, NblockField(raw, junk, fltsz, EOL, k, st))

\* for (j = t; j < 6; ++j) nodes[k*6 + j] = 0.0
RECURSIVE ZeroFill(_, _, _)
ZeroFill(nodes, k, j) ==
  IF j >= 6 THEN nodes ELSE ZeroFill(Store(nodes, k * 6 + j, DZero), k, j + 1)

\* The state after the fields of node k were read: the rest is made 0.0.
NblockFilled(k, st) == [st EXCEPT !.nodes = ZeroFill(@, k, st.t)]

\* The state before the fields of node k are read: the node number a was
\* read and stored, fields 2 and 3 were skipped.
NblockNumber(raw, intsz, k, st, a) ==
  [st EXCEPT !.nnum = Store(@, k, a.val),
             !.i = a.i + intsz * 2,
             !.t = 0,
             !.brk = FALSE,
             !.over = @ \/ Outside(raw, st.i, a.i - 1)]

\* One turn of the loop over the nodes.
NblockNode(raw, junk, intsz, fltsz, EOL, k, st) ==
  NblockFilled(k, NblockFields(raw, junk, fltsz, EOL, k,
                 NblockNumber(raw, intsz, k, st, fast_atoi2(raw, junk, intsz, st.i))))

\* for (k = 0; k < nnodes; ++k)
RECURSIVE NblockLoop(_, _, _, _, _, _, _, _)
NblockLoop(raw, junk, nnodes, intsz, fltsz, EOL, k, st) ==
  IF k >= nnodes THEN st
  ELSE NblockLoop(raw, junk, nnodes, intsz, fltsz, EOL, k + 1,
                  NblockNode(raw, junk, intsz, fltsz, EOL, k, st))

\* What a call hands back: the value returned (the index reached), the two
\* arrays, and whether it read outside the buffer.
NblockReturn(st) ==
  [status |-> "returned", ret |-> st.i, nnum |-> st.nnum, nodes |-> st.nodes,
   overread |-> st.over]

\* read_nblock(raw, nnum, nodes, nnodes, intsz, fltsz, n, EOL), n being the
\* value the pointer n refers to (it is not written).
read_nblock(raw, junk, nnum, nodes, nnodes, intsz, fltsz, n, EOL) ==
  NblockReturn(NblockLoop(raw, junk, nnodes, intsz, fltsz, EOL, 0,
                 [i |-> n, t |-> 0, brk |-> FALSE, nnum |-> nnum, nodes |-> nodes,
                  over |-> FALSE]))

(* ----------------------------------------------------------- read_eblock *)

\* if (raw[n + EOL] == '\n') n += EOL: n is the index of the last character
\* consumed, so the EOL characters after it are stepped over.
EblockEol(raw, junk, EOL, n) ==
  IF W(raw, n + EOL, junk) = Code("\n") THEN n + EOL ELSE n

\* The fill of the slots that are left with 0 in place of -1.
RECURSIVE EblockFill_zero(_, _, _)
EblockFill_zero(elem, i, c) ==
  IF c >= 20 THEN elem ELSE EblockFill_zero(Store(elem, 20 * i + c, 0), i, c + 1)

\* for (c; c < 20; ++c) elem[20*i + c] = -1
RECURSIVE EblockFill(_, _, _)
EblockFill(elem, i, c) ==
  IF c >= 20 THEN elem ELSE EblockFill(Store(elem, 20 * i + c, -1), i, c + 1)

\* One turn of the loop over the nodes of element i, n being the index after
\* the end-of-line test: the field after n is read as fast_atoi reads it.
EblockNodeAt(raw, junk, intsz, EOL, i, c, st, n) ==
  [st EXCEPT !.elem = Store(@, 20 * i + c, AtoiLoop(raw, junk, intsz, n + 1, 0, 0)),
             !.n = n + intsz,
             !.over = @ \/ Outside(raw, st.n + EOL, st.n + EOL)
                        \/ Outside(raw, n + 1, n + intsz)]

\* The loop over the nodes without the end-of-line test before each node.
RECURSIVE EblockNodes_noeol(_, _, _, _, _, _, _, _)
EblockNodes_noeol(raw, junk, intsz, EOL, i, nnode, c, st) ==
  IF c >= nnode
  THEN [st EXCEPT !.elem = EblockFill(@, i, c)]
  ELSE EblockNodes_noeol(raw, junk, intsz, EOL, i, nnode, c + 1,
                         EblockNodeAt(raw, junk, intsz, EOL, i, c, st, st.n))

\* while (c < nnode), then the fill of the slots that are left.
RECURSIVE EblockNodes(_, _, _, _, _, _, _, _)
EblockNodes(raw, junk, intsz, EOL, i, nnode, c, st) ==
  IF c >= nnode
  THEN [st EXCEPT !.elem = EblockFill(@, i, c)]
  ELSE EblockNodes(raw, junk, intsz, EOL, i, nnode, c + 1,
                   EblockNodeAt(raw, junk, intsz, EOL, i, c, st,
                                EblockEol(raw, junk, EOL, st.n)))

\* Field 11, the element number en, is stored; the nodes follow.
EblockNumber(raw, junk, intsz, EOL, i, nnode, st, en) ==
  EblockNodes(raw, junk, intsz, EOL, i, nnode, 0,
              [st EXCEPT !.elemnum = Store(@, i, en.val), !.n = en.i,
                         !.over = @ \/ Outside(raw, st.n + 1, en.i)])

\* Field 9, the number of nodes nn, is kept; field 10 is skipped.
EblockNnode(raw, junk, intsz, EOL, i, st, nn) ==
  EblockNumber(raw, junk, intsz, EOL, i, nn.val, st,
               fast_atoi(raw, junk, intsz, nn.i + intsz))

\* Field 3, the real constant b, is stored; fields 4 to 8 are skipped.
EblockRcon(raw, junk, intsz, EOL, i, st, b) ==
  EblockNnode(raw, junk, intsz, EOL, i, [st EXCEPT !.e_rcon = Store(@, i, b.val)],
              fast_atoi(raw, junk, intsz, b.i + 5 * intsz))

\* Field 2, the element type a, is stored.
EblockType(raw, junk, intsz, EOL, i, st, a) ==
  EblockRcon(raw, junk, intsz, EOL, i, [st EXCEPT !.etype = Store(@, i, a.val)],
             fast_atoi(raw, junk, intsz, a.i))

\* The state after the probe p = checkneg(raw, intsz, &n): the index is past
\* the characters it read.
EblockProbed(raw, intsz, EOL, st, p) ==
  [st EXCEPT !.n = p.i,
             !.over = @ \/ Outside(raw, st.n + EOL, st.n + EOL)
                        \/ Outside(raw, p.i - intsz, p.i - 1)]

\* The probe ends the loop if it found a '-'; else the element is read from
\* the index it left.
EblockProbe(raw, junk, intsz, EOL, i, st, p) ==
  IF p.found
  THEN [EblockProbed(raw, intsz, EOL, st, p) EXCEPT !.stop = TRUE]
  ELSE [EblockType(raw, junk, intsz, EOL, i, EblockProbed(raw, intsz, EOL, st, p),
                   fast_atoi(raw, junk, intsz, p.i))
          EXCEPT !.i = i + 1]

\* One turn of the loop over the elements.
EblockElement(raw, junk, intsz, EOL, i, st) ==
  EblockProbe(raw, junk, intsz, EOL, i, st,
              checkneg(raw, junk, intsz, EblockEol(raw, junk, EOL, st.n)))

\* for (i = 0; i < nelem; ++i), left early by the break.
RECURSIVE EblockLoop(_, _, _, _, _, _)
EblockLoop(raw, junk, intsz, EOL, nelem, st) ==
  IF st.i >= nelem \/ st.stop THEN st
  ELSE EblockLoop(raw, junk, intsz, EOL, nelem,
                  EblockElement(raw, junk, intsz, EOL, st.i, st))

\* What a call hands back: the value returned (i), the value left in the
\* cursor j (n), the four arrays, and whether it read outside the buffer.
EblockReturn(st) ==
  [status |-> "returned", ret |-> st.i, j |-> st.n,
   etype |-> st.etype, e_rcon |-> st.e_rcon, elemnum |-> st.elemnum, elem |-> st.elem,
   overread |-> st.over]

\* read_eblock(raw, etype, e_rcon, elemnum, elem, nelem, intsz, j, EOL), j
\* being the value the cursor holds on entry; out holds the four arrays.
read_eblock(raw, junk, out, nelem, intsz, j, EOL) ==
  EblockReturn(EblockLoop(raw, junk, intsz, EOL, nelem,
                 [i |-> 0, n |-> j - 1, stop |-> FALSE,
                  etype |-> out.etype, e_rcon |-> out.e_rcon,
                  elemnum |-> out.elemnum, elem |-> out.elem, over |-> FALSE]))

(* ------------------------------------------------- generator of text data *)

\* Most node lines of a generated NBLOCK.
MaxNodes == 2

\* Most element records of a generated EBLOCK.
MaxElems == 2

\* n copies of the character code c.
Rep(c, n) == [k \in 1..Max(n, 0) |-> c]

\* The decimal digits of v >= 0, as character codes.
RECURSIVE Digits(_)
Digits(v) == IF v < 10 THEN <<Code("0") + v>> ELSE Digits(v \div 10) \o <<Code("0") + (v % 10)>>

\* The integer v right-justified in a field of w characters.
IntField(v, w) ==
  IF v < 0
  THEN Rep(Code(" "), w - Len(Digits(-v)) - 1) \o <<Code("-")>> \o Digits(-v)
  ELSE Rep(Code(" "), w - Len(Digits(v))) \o Digits(v)

\* The double v = [sign, digs, e] as a field: sign column, first digit,
\* point, the further digits, E, the sign and the two digits of the exponent.
FloatField(v) ==
  <<IF v.sign < 0 THEN Code("-") ELSE Code(" "), Code("0") + v.digs[1], Code(".")>>
  \o [k \in 1..(Len(v.digs) - 1) |-> Code("0") + v.digs[k + 1]]
  \o <<Code("E"), IF v.e < 0 THEN Code("-") ELSE Code("+")>>
  \o (IF v.e < 0 THEN <<Code("0") + ((-v.e) \div 10), Code("0") + ((-v.e) % 10)>>
      ELSE <<Code("0") + (v.e \div 10), Code("0") + (v.e % 10)>>)

\* The characters of an end of line of width EOL.
Eol(EOL) == IF EOL = 2 THEN <<Code("\r"), Code("\n")>> ELSE <<Code("\n")>>

\* The concatenation of the sequences of a sequence.
RECURSIVE Flatten(_)
Flatten(ss) == IF ss = <<>> THEN <<>> ELSE Head(ss) \o Flatten(Tail(ss))

\* The double in field t (from 0) of node line k (from 0) of a generated
\* NBLOCK, with nread digits after the point: both signs, and exponents
\* that are zero, positive and negative.
NodeValue(k, t, nread) ==
  [sign |-> IF (k + t) % 2 = 1 THEN -1 ELSE 1,
   digs |-> <<t + 1>> \o [j \in 1..nread |-> (k + j) % 10],
   e    |-> CASE t % 3 = 0 -> 0 [] t % 3 = 1 -> 2 [] OTHER -> -1]

\* Node line k: its number k + 1 and its nf doubles.
NodeLine(k, nf, nread) ==
  [num |-> k + 1, vals |-> [t \in 1..nf |-> NodeValue(k, t - 1, nread)]]

\* The characters of a node line: the number, fields 2 and 3, the doubles
\* the line holds, the end of line.
NodeLineText(l, intsz, EOL) ==
  IntField(l.num, intsz) \o IntField(0, intsz) \o IntField(0, intsz)
  \o Flatten([t \in 1..Len(l.vals) |-> FloatField(l.vals[t])]) \o Eol(EOL)

\* The line that ends a block: the field -1.
TerminatorText(intsz, EOL) == IntField(-1, intsz) \o Eol(EOL)

\* The number of doubles on line k of the NBLOCK of a choice: 0 to 6.
FieldCount(choice, k) == (choice + k) % 7

\* A generated NBLOCK: pre line ends of earlier lines, nl node lines, the
\* terminator line if term; the caller asks for nnodes nodes from index pre.
NblockText(w, choice, nl, term, EOL, pre, nnodes) ==
  [shape |-> "nblock", kind |-> "generated",
   raw |-> Rep(Code("\n"), pre)
           \o Flatten([k \in 1..nl |->
                 NodeLineText(NodeLine(k - 1, FieldCount(choice, k - 1), NRead(w[2])), w[1], EOL)])
           \o (IF term THEN TerminatorText(w[1], EOL) ELSE <<>>),
   intsz |-> w[1], fltsz |-> w[2], EOL |-> EOL, n |-> pre, nnodes |-> nnodes,
   lines |-> [k \in 1..nl |-> NodeLine(k - 1, FieldCount(choice, k - 1), NRead(w[2]))],
   term |-> term]

\* The widths of the integer and of the float fields of generated NBLOCKs.
NblockWidths == {<<2, 8>>, <<3, 9>>}

NblockTexts ==
  {NblockText(w, choice, nl, term, EOL, pre, nnodes) :
     w \in NblockWidths, choice \in 0..6, nl \in 1..MaxNodes, term \in BOOLEAN,
     EOL \in {1, 2}, pre \in {0, 1}, nnodes \in 0..(MaxNodes + 1)}

\* An NBLOCK whose first line holds seven doubles before its end of line,
\* followed by a line with two; the caller asks for nnodes of them.
SevenFieldText(w, EOL, nnodes) ==
  [shape |-> "nblock", kind |-> "seven fields",
   raw |-> NodeLineText(NodeLine(0, 7, NRead(w[2])), w[1], EOL)
           \o NodeLineText(NodeLine(1, 2, NRead(w[2])), w[1], EOL),
   intsz |-> w[1], fltsz |-> w[2], EOL |-> EOL, n |-> 0, nnodes |-> nnodes,
   lines |-> <<NodeLine(0, 7, NRead(w[2])), NodeLine(1, 2, NRead(w[2]))>>,
   term |-> FALSE]

SevenFieldTexts ==
  {SevenFieldText(w, EOL, nnodes) : w \in NblockWidths, EOL \in {1, 2}, nnodes \in 1..2}

\* The whole number d as a double with nread digits after the point.
Whole(d, nread) == [sign |-> 1, digs |-> <<d>> \o Rep(0, nread), e |-> 0]

\* The text of Scenario C of the specification, character for character:
\* an 8-wide node number, " 0 0", and two doubles of 20 characters, read
\* with the widths 8 and 21 the scenario gives.
ScenarioText ==
  [shape |-> "nblock", kind |-> "scenario",
   raw |-> IntField(1, 8) \o <<Code(" "), Code("0"), Code(" "), Code("0")>>
           \o FloatField(Whole(1, 13)) \o FloatField(Whole(2, 13)),
   intsz |-> 8, fltsz |-> 21, EOL |-> 1, n |-> 0, nnodes |-> 1,
   lines |-> <<[num |-> 1, vals |-> <<Whole(1, 13), Whole(2, 13)>>]>>,
   term |-> FALSE]

\* The line of Scenario C laid out in the widths 8 and 21: three 8-wide
\* integers, two doubles of 21 characters, an end of line.
ScenarioLaidOut ==
  [shape |-> "nblock", kind |-> "laid out",
   raw |-> NodeLineText([num |-> 1, vals |-> <<Whole(1, 14), Whole(2, 14)>>], 8, 1),
   intsz |-> 8, fltsz |-> 21, EOL |-> 1, n |-> 0, nnodes |-> 1,
   lines |-> <<[num |-> 1, vals |-> <<Whole(1, 14), Whole(2, 14)>>]>>,
   term |-> FALSE]

\* The numbers of nodes of generated elements: none, one, a linear
\* hexahedron, quadratic elements with dropped midside nodes, a full one.
NodeCounts == <<8, 0, 20, 11, 19, 1>>

\* The number of nodes of element i of the EBLOCK of a choice.
NodeCount(choice, i) == NodeCounts[((choice + i) % Len(NodeCounts)) + 1]

\* Where the node list of an element is broken by line ends: nowhere, where
\* ANSYS wraps it (before the ninth node), or before every other node.
Breaks(sel, nc) ==
  CASE sel = 0 -> {}
    [] sel = 1 -> {8} \cap 0..(nc - 1)
    [] OTHER -> {c \in 0..(nc - 1) : c % 2 = 0}

\* Element record i (from 0) of the EBLOCK of a choice: its 11 fields, the
\* ninth being the number of nodes, its node ids, its line breaks.
ElemRecord(choice, sel, i) ==
  [fields |-> [f \in 1..11 |->
                 IF f = 9 THEN NodeCount(choice, i)
                 ELSE 10 * f + i + 1],
   nodes  |-> [c \in 1..NodeCount(choice, i) |->
                 100 * (i + 1) + c],
   brk    |-> Breaks(sel, NodeCount(choice, i))]

\* The characters of an element record: the fields, the node ids, a line
\* end before the nodes of brk, and the end of the line.
ElemRecordText(e, intsz, EOL) ==
  Flatten([f \in 1..11 |-> IntField(e.fields[f], intsz)])
  \o Flatten([c \in 1..Len(e.nodes) |->
                (IF (c - 1) \in e.brk THEN Eol(EOL) ELSE <<>>)
                \o IntField(e.nodes[c], intsz)])
  \o Eol(EOL)

\* The width of the integer fields of generated EBLOCKs.
EblockWidths == {3, 4}

\* A generated EBLOCK: pre line ends of earlier lines, ne element records,
\* the terminator line; the caller asks for nelem elements from index pre.
EblockText(w, choice, sel, ne, EOL, pre, nelem) ==
  [shape |-> "eblock", kind |-> "generated",
   raw |-> Rep(Code("\n"), pre)
           \o Flatten([i \in 1..ne |-> ElemRecordText(ElemRecord(choice, sel, i - 1), w, EOL)])
           \o TerminatorText(w, EOL),
   intsz |-> w, EOL |-> EOL, j |-> pre, nelem |-> nelem,
   elems |-> [i \in 1..ne |-> ElemRecord(choice, sel, i - 1)],
   term |-> TRUE]

EblockTexts ==
  {EblockText(w, choice, sel, ne, EOL, pre, nelem) :
     w \in EblockWidths, choice \in 0..(Len(NodeCounts) - 1), sel \in 0..2,
     ne \in 0..MaxElems, EOL \in {1, 2}, pre \in {0, 1}, nelem \in 0..(MaxElems + 1)}

\* What a read outside the text buffer may return: a NUL or a '-'.
JunkChars == {0, Code("-")}

\* The old data of the double array of the caller.
OldNode == [sign |-> -1, digs |-> <<9>>, e |-> 99]

\* The arrays the caller of read_nblock allocates for nnodes nodes.
NodeArrays(nnodes) ==
  [nnum  |-> [a |-> [k \in 1..nnodes |-> OldElem("int", k - 1)], oob |-> {}],
   nodes |-> [a |-> [k \in 1..(6 * nnodes) |-> OldNode], oob |-> {}]]

\* The arrays the caller of read_eblock allocates for nelem elements.
ElemArrays(nelem) ==
  [etype   |-> [a |-> [k \in 1..nelem |-> OldElem("int", k - 1)], oob |-> {}],
   e_rcon  |-> [a |-> [k \in 1..nelem |-> OldElem("int", k - 1)], oob |-> {}],
   elemnum |-> [a |-> [k \in 1..nelem |-> OldElem("int", k - 1)], oob |-> {}],
   elem    |-> [a |-> [k \in 1..(20 * nelem) |-> OldElem("int", k - 1)], oob |-> {}]]

\* Widest generated integer field that is parsed on its own.
MaxWidth == 3

\* The characters of such fields: the blank and some decimal digits.
FieldChars == {Code(" "), Code("0"), Code("0") + 1, Code("0") + 5, Code("0") + 9}

\* A buffer holding one integer field: pre digits of an earlier field, the
\* field f, a digit of the next field; the cursor is at the field.
FieldText(f, pre) ==
  [shape |-> "field", kind |-> "generated",
   raw |-> Rep(Code("0") + 7, pre) \o f \o <<Code("0") + 7>>,
   intsz |-> Len(f), n |-> pre]

FieldTexts ==
  {FieldText(f, pre) :
     f \in UNION {[1..w -> FieldChars] : w \in 1..MaxWidth}, pre \in {0, 1}}

(* ------------------------------------------ the text decoders on a buffer *)

TextInit ==
  /\ NoRecord
  /\ NoStream
  /\ NoMesh
  /\ NoNodes
  /\ NoMatrix
  /\ text \in NblockTexts \cup {ScenarioText, ScenarioLaidOut} \cup EblockTexts
              \cup FieldTexts \cup SevenFieldTexts
  /\ rn = [status |-> "idle"]
  /\ re = [status |-> "idle"]
  /\ ri = [status |-> "idle"]

\* A caller runs read_nblock on the buffer.
ReadNblock ==
  /\ text.shape = "nblock"
  /\ rn.status = "idle"
  /\ \E junk \in JunkChars :
       rn' = read_nblock(text.raw, junk, NodeArrays(text.nnodes).nnum,
                         NodeArrays(text.nnodes).nodes, text.nnodes, text.intsz,
                         text.fltsz, text.n, text.EOL)
  /\ UNCHANGED <<hdr, payload, start, gen, arr, fpos, rr, rs, stream, rh, text, re, ri, mesh, rv, tin, heap, th, nfile, rd, full, ra>>

\* A caller runs read_eblock on the buffer.
ReadEblock ==
  /\ text.shape = "eblock"
  /\ re.status = "idle"
  /\ \E junk \in JunkChars :
       re' = read_eblock(text.raw, junk, ElemArrays(text.nelem), text.nelem,
                         text.intsz, text.j, text.EOL)
  /\ UNCHANGED <<hdr, payload, start, gen, arr, fpos, rr, rs, stream, rh, text, rn, ri, mesh, rv, tin, heap, th, nfile, rd, full, ra>>

\* A caller parses the field at the cursor with fast_atoi2, and with
\* fast_atoi, whose index is the character before the field.
ParseIntField ==
  /\ text.shape = "field"
  /\ ri.status = "idle"
  /\ \E junk \in JunkChars :
       ri' = [status |-> "returned",
              a  |-> fast_atoi(text.raw, junk, text.intsz, text.n - 1),
              a2 |-> fast_atoi2(text.raw, junk, text.intsz, text.n)]
  /\ UNCHANGED <<hdr, payload, start, gen, arr, fpos, rr, rs, stream, rh, text, rn, re, mesh, rv, tin, heap, th, nfile, rd, full, ra>>

TextNext == ReadNblock \/ ReadEblock \/ ParseIntField

TextSpec == TextInit /\ [][TextNext]_vars

(* ================================================ claims on the text side *)

\* Entry t (from 0) of the six doubles of node k (from 0).
Dof(k, t) == rn.nodes.a[6 * k + t + 1]

\* The number stored for node k.
NodeNumber(k) == rn.nnum.a[k + 1]

\* The characters of a generated node line: three integer fields, the
\* doubles it holds, its end of line.
LineLen(l) == 3 * text.intsz + Len(l.vals) * text.fltsz + text.EOL

\* The index of the first character of node line k (from 0).
RECURSIVE LineStart(_)
LineStart(k) == IF k = 0 THEN text.n ELSE LineStart(k - 1) + LineLen(text.lines[k])

(* ---- C13 ---- *)

\* C13: when the terminator line (a record beginning with '-') comes before
\* the n records asked for, read_nblock stops at it, writes no node for it or
\* for any later line, and reports the count parsed, which is less than n.
C13_TerminatorStops ==
  (rn.status = "returned" /\ text.kind = "generated" /\ text.term
   /\ text.nnodes > Len(text.lines)) =>
    /\ rn.ret = Len(text.lines)
    /\ rn.ret < text.nnodes
    /\ \A k \in Len(text.lines)..(text.nnodes - 1) :
         /\ NodeNumber(k) = OldElem("int", k)
         /\ \A t \in 0..5 : Dof(k, t) = OldNode
    /\ rn.nodes.oob = {}

(* ---- C14 ---- *)

\* The double v is the whole number d.
NumIs(v, d) ==
  /\ v.sign = 1 /\ v.e = 0 /\ v.digs[1] = d
  /\ \A j \in 2..Len(v.digs) : v.digs[j] = 0

\* On a generated NBLOCK that holds the lines asked for: every line with
\* fewer than 6 doubles gives its number, its doubles in order and 0.0 in
\* the entries that are left; and if the last line read is such a line the
\* index returned is the first character after its end of line, so that the
\* omitted fields took no characters.
ShortLinesZeroFilled ==
  (rn.status = "returned" /\ text.kind = "generated" /\ text.nnodes <= Len(text.lines)) =>
    /\ \A k \in 0..(text.nnodes - 1) :
         Len(text.lines[k + 1].vals) < 6 =>
           /\ NodeNumber(k) = text.lines[k + 1].num
           /\ \A t \in 0..5 :
                Dof(k, t) = IF t < Len(text.lines[k + 1].vals)
                            THEN text.lines[k + 1].vals[t + 1] ELSE DZero
    /\ (text.nnodes >= 1 /\ Len(text.lines[Max(text.nnodes, 1)].vals) < 6) =>
         rn.ret = LineStart(text.nnodes)
    /\ (\A k \in 1..text.nnodes : Len(text.lines[k].vals) < 6) =>
         rn.nodes.oob = {} /\ ~rn.overread

\* The result Scenario C states, on the text of the given kind: number 1 and
\* the doubles 1.0, 2.0, 0, 0, 0, 0.
ScenarioResult(kind) ==
  (rn.status = "returned" /\ text.kind = kind) =>
    /\ NodeNumber(0) = 1
    /\ NumIs(Dof(0, 0), 1) /\ NumIs(Dof(0, 1), 2)
    /\ \A t \in 2..5 : Dof(0, t) = DZero

\* C14 as stated: short lines are zero-filled, the omitted fields take no
\* characters, the index ends on the next line, and the text of Scenario C
\* read with int_width 8 and float_width 21 gives number 1 and the doubles
\* 1.0, 2.0, 0, 0, 0, 0.
C14_ShortLineZeroFillScenario == ShortLinesZeroFilled /\ ScenarioResult("scenario")

\* C14 as amended: the same, the scenario being the line laid out in the
\* widths 8 and 21 (three 8-wide integers, two 21-wide doubles, end of line).
C14_ShortLineZeroFill == ShortLinesZeroFilled /\ ScenarioResult("laid out")

\* read_nblock read two lines from a buffer with two-character line ends,
\* the first with 2 doubles and the second with 3, a negative one among
\* them, and filled the rest of both nodes with 0.0.
C14_Witness ==
  /\ rn.status = "returned" /\ text.kind = "generated"
  /\ text.nnodes = 2 /\ Len(text.lines) = 2 /\ text.EOL = 2
  /\ Len(text.lines[1].vals) = 2 /\ Len(text.lines[2].vals) = 3
  /\ Dof(1, 2) = text.lines[2].vals[3] /\ Dof(1, 2).sign = -1 /\ Dof(1, 2).e = -1
  /\ Dof(0, 2) = DZero /\ Dof(1, 5) = DZero
  /\ rn.ret = Len(text.raw)

(* ---- C15 ---- *)

\* Slot c (from 0) of the 20 node slots of element i (from 0).
ElemSlot(i, c) == re.elem.a[20 * i + c + 1]

\* The element records of the buffer that the call was to parse: those
\* before the terminator line, at most nelem.
ToParse == Min(text.nelem, Len(text.elems))

\* The characters of a generated element record: the 11 fields, the node
\* ids, the line ends in the node list and the end of the line.
RecLen(e) == (11 + Len(e.nodes)) * text.intsz + (Cardinality(e.brk) + 1) * text.EOL

\* The index of the first character of element record i (from 0); the
\* terminator line starts at RecStart(Len(text.elems)).
RECURSIVE RecStart(_)
RecStart(i) == IF i = 0 THEN text.j ELSE RecStart(i - 1) + RecLen(text.elems[i])

\* The index of the first character the call had no need to consume: after
\* the first field of the terminator line if it was met, else after the last
\* node id of the last element asked for.
PastConsumed ==
  IF text.nelem > Len(text.elems)
  THEN RecStart(Len(text.elems)) + text.intsz
  ELSE RecStart(text.nelem) - text.EOL

\* Nothing was written for element i.
Unwritten(i) ==
  /\ re.etype.a[i + 1] = OldElem("int", i)
  /\ re.e_rcon.a[i + 1] = OldElem("int", i)
  /\ re.elemnum.a[i + 1] = OldElem("int", i)
  /\ \A c \in 0..19 : ElemSlot(i, c) = OldElem("int", 20 * i + c)

\* C15: before each element read_eblock probes the width characters of the
\* first field of the record for a '-'; if there is one it stops and writes
\* nothing for that element; it returns the number of elements parsed, at
\* most nelem and nelem if no terminator was met, and leaves the cursor past
\* everything it consumed.
C15_ProbeStopsAndCounts ==
  re.status = "returned" =>
    /\ re.ret = ToParse
    /\ re.ret <= text.nelem
    /\ \A i \in ToParse..(text.nelem - 1) : Unwritten(i)
    /\ ~re.overread
    /\ re.j = PastConsumed

(* ---- C16 ---- *)

\* The elements that were parsed, as indices into the records of the buffer.
ParsedElems == 0..(Min(re.ret, Len(text.elems)) - 1)

\* C16: for every element parsed the number of nodes is the 9th field of its
\* record and exactly that many node ids are parsed, into slots 0 to
\* node_count - 1 of its 20 slots; a linear hexahedron (8 nodes) has -1 in
\* the 12 slots 8 to 19.
C16_NodeCountAndSlots ==
  re.status = "returned" =>
    /\ \A i \in ParsedElems :
         /\ \A c \in 0..(text.elems[i + 1].fields[9] - 1) :
              ElemSlot(i, c) = text.elems[i + 1].nodes[c + 1]
         /\ text.elems[i + 1].fields[9] = 8 => \A c \in 8..19 : ElemSlot(i, c) = -1
    /\ re.elem.oob = {}

\* read_eblock parsed two elements, a hexahedron whose node list goes over
\* line ends and an element with 20 nodes or none.
C16_Witness ==
  /\ re.status = "returned" /\ re.ret = 2
  /\ \E i \in 0..1 :
       /\ text.elems[i + 1].fields[9] = 8 /\ text.elems[i + 1].brk # {}
       /\ ElemSlot(i, 0) = 100 * (i + 1) + 1 /\ ElemSlot(i, 7) = 100 * (i + 1) + 8
       /\ ElemSlot(i, 8) = -1 /\ ElemSlot(i, 19) = -1

(* ---- C17 ---- *)

\* C17: an element with 11 to 19 nodes has 0 in the slots from node_count
\* on; an element with any other number of nodes has -1 there.
C17_QuadraticPadding ==
  re.status = "returned" =>
    \A i \in ParsedElems :
      \A c \in text.elems[i + 1].fields[9]..19 :
        ElemSlot(i, c) = IF text.elems[i + 1].fields[9] \in 11..19 THEN 0 ELSE -1

(* ---- C18 ---- *)

\* The buffer without the line ends inside the node lists.
UnbrokenRaw ==
  Rep(Code("\n"), text.j)
  \o Flatten([i \in 1..Len(text.elems) |->
                ElemRecordText([text.elems[i] EXCEPT !.brk = {}], text.intsz, text.EOL)])
  \o TerminatorText(text.intsz, text.EOL)

\* The line ends inside the node lists of the first n element records.
RECURSIVE BreaksIn(_)
BreaksIn(n) == IF n <= 0 THEN 0 ELSE BreaksIn(n - 1) + Cardinality(text.elems[n].brk)

\* What the call on the unbroken buffer hands back, its cursor moved by d.
UnbrokenResult(r, d) == [r EXCEPT !.j = @ + d]

\* C18: line ends (of the EOL width) put between node-id fields of elements
\* change nothing of what is parsed - the node ids, the element count, the
\* attributes of that element and of those after it - but the final cursor,
\* which is greater by the number of characters put in.
C18_LineBreaksTransparent ==
  (re.status = "returned" /\ ~re.overread) =>
    re = UnbrokenResult(read_eblock(UnbrokenRaw, 0, ElemArrays(text.nelem), text.nelem,
                                    text.intsz, text.j, text.EOL),
                        text.EOL * BreaksIn(re.ret))

\* read_eblock parsed two elements from a buffer with two-character line
\* ends, at least three of them inside the node lists.
C18_Witness ==
  /\ re.status = "returned" /\ ~re.overread /\ re.ret = 2 /\ text.EOL = 2
  /\ BreaksIn(2) >= 3
  /\ ElemSlot(1, 0) = 201

(* ---- C19 ---- *)

\* The values the call left for element i.
Materialized(i) ==
  {re.etype.a[i + 1], re.e_rcon.a[i + 1], re.elemnum.a[i + 1]}
  \cup {ElemSlot(i, c) : c \in 0..19}

\* C19: the header of each element is consumed as 11 fields of the integer
\* width - material id, element type, real constant, section id, 4 skipped,
\* node count, 1 skipped, element number - and the call materializes for
\* element i the material id, element type, real constant, section id and
\* element number, from fields 1, 2, 3, 4 and 11 of its record.
C19_HeaderFields ==
  re.status = "returned" =>
    \A i \in ParsedElems :
      /\ re.etype.a[i + 1] = text.elems[i + 1].fields[2]
      /\ re.e_rcon.a[i + 1] = text.elems[i + 1].fields[3]
      /\ re.elemnum.a[i + 1] = text.elems[i + 1].fields[11]
      /\ text.elems[i + 1].fields[1] \in Materialized(i)
      /\ text.elems[i + 1].fields[4] \in Materialized(i)

(* ---- C20 ---- *)

\* The index in the flat array elem at which read_eblock starts element i:
\* it writes the node slots of element i at elem[20*i + c] and keeps no
\* table of offsets.
ElemStart(i) == 20 * i

\* The offsets of the elements of a call for nelem elements, as the table
\* elem_off that ans_to_vtk is given: entry i at index i + 1.
ElemOffsets(nelem) == [k \in 1..(nelem + 1) |-> ElemStart(k - 1)]

\* ans_to_vtk: the number of nodes of element i, from adjacent offsets
\* (off = elem_off[i] + 10; nnode_elem = elem_off[i + 1] - off).
VtkNnode(elem_off, i) == elem_off[i + 2] - (elem_off[i + 1] + 10)

\* ans_to_vtk: the element type of element i, etype = elem[elem_off[i] + 1].
VtkEtype(elem, elem_off, i) == elem[elem_off[i + 1] + 1 + 1]

\* C20: the offset of element i is the start index of element i in the flat
\* array, the last offset is the total written, the offsets never decrease,
\* and the difference of adjacent offsets is the stored length of element i,
\* which ans_to_vtk takes as 10 + node count (and at whose second entry it
\* finds the element type).
C20_ElemOffsets ==
  re.status = "returned" =>
    /\ \A i \in 0..(text.nelem - 1) :
         ElemOffsets(text.nelem)[i + 1] <= ElemOffsets(text.nelem)[i + 2]
    /\ \A i \in ParsedElems :
         /\ ElemOffsets(text.nelem)[i + 2] - ElemOffsets(text.nelem)[i + 1]
              = 10 + text.elems[i + 1].fields[9]
         /\ VtkNnode(ElemOffsets(text.nelem), i) = text.elems[i + 1].fields[9]
         /\ VtkEtype(re.elem.a, ElemOffsets(text.nelem), i) = text.elems[i + 1].fields[2]

(* ---- C21 ---- *)

RECURSIVE Pow10(_)
Pow10(n) == IF n <= 0 THEN 1 ELSE 10 * Pow10(n - 1)

\* The characters of the field at the cursor.
FieldAtCursor == SubSeq(text.raw, text.n + 1, text.n + text.intsz)

\* The digits of a field, its blanks left out.
NotBlank(c) == c # Code(" ")

FieldDigits(f) == SelectSeq(f, NotBlank)

\* The decimal value of a sequence of digit characters: digit k counts
\* 10^(number of digits after it); no digit gives 0.
RECURSIVE PlaceSum(_, _)
PlaceSum(ds, k) ==
  IF k > Len(ds) THEN 0
  ELSE (ds[k] - Code("0")) * Pow10(Len(ds) - k) + PlaceSum(ds, k + 1)

\* C21: on a field of width characters, blanks and decimal digits,
\* fast_atoi2 and fast_atoi (whose index is advanced before each read) give
\* the decimal value of the digits with the blanks skipped, 0 if all are
\* blank, and advance the cursor by exactly the width however many blanks
\* there are.
C21_FixedInt ==
  ri.status = "returned" =>
    /\ ri.a2.val = PlaceSum(FieldDigits(FieldAtCursor), 1)
    /\ ri.a2.i = text.n + text.intsz
    /\ ri.a.val = PlaceSum(FieldDigits(FieldAtCursor), 1)
    /\ ri.a.i = (text.n - 1) + text.intsz

\* Both parsers read the field "1 9" behind an earlier digit as 19, and a
\* field of blanks is among the fields.
C21_Witness ==
  /\ ri.status = "returned" /\ text.n = 1
  /\ FieldAtCursor = <<Code("0") + 1, Code(" "), Code("0") + 9>>
  /\ ri.a.val = 19 /\ ri.a2.val = 19 /\ ri.a2.i = 4 /\ ri.a.i = 3

(* ---- C22 ---- *)

\* C22: the text cursor does not decrease across a call: for every call of
\* read_nblock and of read_eblock, whatever count is asked for (0 too), the
\* cursor handed back is not below the cursor at entry.
C22_CursorMonotonic ==
  /\ rn.status = "returned" => rn.ret >= text.n
  /\ re.status = "returned" => re.j >= text.j

(* ---- C25 ---- *)

\* C25: read_nblock writes for record k only nnum[k] and nodes[6k..6k+5],
\* whatever the line holds: on a buffer that holds the lines asked for, a
\* seventh double before the end of a line included, nothing is written
\* past the six doubles of the last node asked for, and the doubles of a
\* node are those of its own line.
C25_WritesOwnSlotsOnly ==
  (rn.status = "returned" /\ text.kind \in {"generated", "laid out", "seven fields"}
   /\ text.nnodes <= Len(text.lines)) =>
    /\ rn.nodes.oob = {}
    /\ rn.nnum.oob = {}
    /\ \A k \in 0..(text.nnodes - 1) :
         \A t \in 0..5 :
           Dof(k, t) = IF t < Len(text.lines[k + 1].vals)
                       THEN text.lines[k + 1].vals[t + 1] ELSE DZero

(* ---- C24 ---- *)

\* C24: in a windowed decode, a window with loc <= 0 and len = 0 (an empty
\* window) writes no output element: the output array after the window is
\* the output array before it, in read_record and in read_record_stream and
\* for every element type.
C24_EmptyWindowWritesNothing ==
  \A c \in Calls :
    (c.status \in {"returned", "crashed"} /\ c.family = "wsparse" /\ ~c.overread) =>
      \A k \in 1..Len(c.trace) :
        (c.trace[k].kind # "isolated" /\ c.trace[k].loc <= 0 /\ c.trace[k].len = 0) =>
          c.trace[k].after = c.trace[k].before

(* ==== ans_to_vtk: ANSYS elements to VTK cells (vtk_support.c) ==== *)

\* VTK numbering for vtk cells.
VTK_EMPTY_CELL == 0
VTK_VERTEX == 1
VTK_LINE == 3
VTK_TRIANGLE == 5
VTK_QUAD == 9
VTK_QUADRATIC_TRIANGLE == 22
VTK_QUADRATIC_QUAD == 23
VTK_HEXAHEDRON == 12
VTK_PYRAMID == 14
VTK_TETRA == 10
VTK_WEDGE == 13
VTK_QUADRATIC_EDGE == 21
VTK_QUADRATIC_TETRA == 24
VTK_QUADRATIC_PYRAMID == 27
VTK_QUADRATIC_WEDGE == 26
VTK_QUADRATIC_HEXAHEDRON == 25

\* The integers a, a+1, ..., b in order (none when b < a).
Ints(a, b) == [k \in 1..Max(b - a + 1, 0) |-> a + k - 1]

\* elem[i]: a read outside the array yields whatever lies there.
ElemAt(elem, i, junk) == IF i >= 0 /\ i < Len(elem) THEN elem[i + 1] ELSE junk

\* The process-wide struct VtkData vtk_data before any call: static storage,
\* null pointers (buffer 0) and loc = 0.
VtkData0 ==
  [offset |-> [buf |-> 0, idx |-> 0], cells |-> 0,
   celltypes |-> [buf |-> 0, idx |-> 0], loc |-> 0, nref |-> 0]

\* vtk_data.nref[v]: the table the global points at, built by its owner as
\* nref[0] = -1; nref[nnum[i]] = i.  An entry never set, an index past the
\* table, or a table already freed yields whatever lies there.
NrefAt(H, v, junk) ==
  LET tb == H.nref[H.vd.nref]
      at == {i \in 1..Len(tb.nnum) : tb.nnum[i] = v}
  IN  IF ~tb.live \/ v < 0 \/ v > tb.nnum[Len(tb.nnum)] THEN junk
      ELSE IF at # {} THEN (CHOOSE i \in at : \A k \in at : k <= i) - 1
      ELSE IF v = 0 THEN -1
      ELSE junk

\* vtk_data.cells[vtk_data.loc++] = v
PutCell(H, v) ==
  [H EXCEPT !.out[H.vd.cells].cells = Store(@, H.vd.loc, v), !.vd.loc = @ + 1]

\* if (build_offset) { vtk_data.offset[0] = vtk_data.loc; vtk_data.offset++; }
AddOffset(H, build_offset) ==
  IF build_offset
  THEN [H EXCEPT !.out[H.vd.offset.buf].offset = Store(@, H.vd.offset.idx, H.vd.loc),
                 !.vd.offset.idx = @ + 1]
  ELSE H

\* vtk_data.celltypes[0] = celltype; vtk_data.celltypes++;
AddCelltype(H, celltype) ==
  [H EXCEPT !.out[H.vd.celltypes.buf].celltypes = Store(@, H.vd.celltypes.idx, celltype),
            !.vd.celltypes.idx = @ + 1]

add_cell(H, build_offset, n_points, celltype) ==
  PutCell(AddCelltype(AddOffset(H, build_offset), celltype), n_points)

\* The statements cells[loc++] = nref[elem[k]] for the indices ks in order;
\* a negative k stands for the statement cells[loc++] = -1.
RECURSIVE Emit(_, _, _, _, _)
Emit(H, elem, off, ks, junk) ==
  IF ks = <<>> THEN H
  ELSE Emit(PutCell(H, IF Head(ks) < 0 THEN -1
                       ELSE NrefAt(H, ElemAt(elem, off + Head(ks), junk), junk)),
            elem, off, Tail(ks), junk)

add_hex(H, build_offset, elem, off, nnode, junk) ==
  IF nnode > 8
  THEN Emit(add_cell(H, build_offset, 20, VTK_QUADRATIC_HEXAHEDRON), elem, off,
            Ints(0, 7) \o Ints(8, nnode - 1) \o Rep(-1, 20 - nnode), junk)
  ELSE Emit(add_cell(H, build_offset, 8, VTK_HEXAHEDRON), elem, off, Ints(0, 7), junk)

add_wedge(H, build_offset, elem, off, nnode, junk) ==
  IF nnode > 8
  THEN Emit(add_cell(H, build_offset, 15, VTK_QUADRATIC_WEDGE), elem, off,
            <<2, 1, 0, 6, 5, 4, 9, 8, 11, 13, 12, 15, 18, 17, 16>>, junk)
  ELSE Emit(add_cell(H, build_offset, 6, VTK_WEDGE), elem, off, <<2, 1, 0, 6, 5, 4>>, junk)

add_pyr(H, build_offset, elem, off, nnode, junk) ==
  IF nnode > 8
  THEN Emit(add_cell(H, build_offset, 13, VTK_QUADRATIC_PYRAMID), elem, off,
            Ints(0, 4) \o Ints(8, 11) \o Ints(16, 19), junk)
  ELSE Emit(add_cell(H, build_offset, 5, VTK_PYRAMID), elem, off, Ints(0, 4), junk)

add_tet(H, build_offset, elem, off, nnode, junk) ==
  IF nnode > 8
  THEN Emit(add_cell(H, build_offset, 10, VTK_QUADRATIC_TETRA), elem, off,
            <<0, 1, 2, 4, 8, 9, 11, 16, 17, 18>>, junk)
  ELSE Emit(add_cell(H, build_offset, 4, VTK_TETRA), elem, off, <<0, 1, 2, 4>>, junk)

add_tet10(H, build_offset, elem, off, nnode, junk) ==
  IF nnode > 4
  THEN Emit(add_cell(H, build_offset, 10, VTK_QUADRATIC_TETRA), elem, off,
            Ints(0, 3) \o Ints(4, nnode - 1) \o Rep(-1, 10 - nnode), junk)
  ELSE Emit(add_cell(H, build_offset, 4, VTK_TETRA), elem, off, Ints(0, 3), junk)

add_quad(H, build_offset, elem, off, is_quad, junk) ==
  IF is_quad
  THEN Emit(add_cell(H, build_offset, 8, VTK_QUADRATIC_QUAD), elem, off, Ints(0, 7), junk)
  ELSE Emit(add_cell(H, build_offset, 4, VTK_QUAD), elem, off, Ints(0, 3), junk)

add_tri(H, build_offset, elem, off, quad, junk) ==
  IF quad
  THEN Emit(add_cell(H, build_offset, 6, VTK_QUADRATIC_TRIANGLE), elem, off,
            <<0, 1, 2, 4, 5, 7>>, junk)
  ELSE Emit(add_cell(H, build_offset, 3, VTK_TRIANGLE), elem, off, <<0, 1, 2>>, junk)

add_line(H, build_offset, elem, off, quad, junk) ==
  IF quad
  THEN Emit(add_cell(H, build_offset, 3, VTK_QUADRATIC_EDGE), elem, off, <<0, 1, 2>>, junk)
  ELSE Emit(add_cell(H, build_offset, 2, VTK_LINE), elem, off, <<0, 1>>, junk)

add_point(H, build_offset, elem, off, junk) ==
  Emit(add_cell(H, build_offset, 1, VTK_VERTEX), elem, off, <<0>>, junk)

\* switch (type_ref[etype]) of the element at off with nnode_elem nodes.
VtkSwitch(H, build_offset, elem, off, nnode_elem, class, junk) ==
  CASE class = 0 -> add_cell(H, build_offset, 0, VTK_EMPTY_CELL)
    [] class = 1 -> add_point(H, build_offset, elem, off, junk)
    [] class = 2 -> add_line(H, build_offset, elem, off, nnode_elem > 2, junk)
    [] class = 3 ->
         IF ElemAt(elem, off + 2, junk) = ElemAt(elem, off + 13, junk)
         THEN add_tri(H, build_offset, elem, off, nnode_elem > 4, junk)
         ELSE add_quad(H, build_offset, elem, off, nnode_elem > 4, junk)
    [] class = 4 ->
         IF ElemAt(elem, off + 6, junk) # ElemAt(elem, off + 7, junk)
         THEN add_hex(H, build_offset, elem, off, nnode_elem, junk)
         ELSE IF ElemAt(elem, off + 5, junk) # ElemAt(elem, off + 6, junk)
         THEN add_wedge(H, build_offset, elem, off, nnode_elem, junk)
         ELSE IF ElemAt(elem, off + 2, junk) # ElemAt(elem, off + 3, junk)
         THEN add_pyr(H, build_offset, elem, off, nnode_elem, junk)
         ELSE add_tet(H, build_offset, elem, off, nnode_elem, junk)
    [] class = 5 -> add_tet10(H, build_offset, elem, off, nnode_elem, junk)
    [] OTHER -> H

\* One pass of the loop of ans_to_vtk, for element i (from 0) of mesh m.
VtkElement(H, m, i, junk) ==
  VtkSwitch(H, m.build_offset, m.elem, m.elem_off[i + 1] + 10,
            m.elem_off[i + 2] - (m.elem_off[i + 1] + 10),
            ElemAt(m.type_ref, ElemAt(m.elem, m.elem_off[i + 1] + 1, junk), junk), junk)

\* The start of ans_to_vtk in thread t: nref is allocated and filled, and
\* the global vtk_data is pointed at the arrays of this call, loc = 0.
VtkSetup(H, t, m) ==
  [H EXCEPT !.nref[t] = [live |-> TRUE, nnum |-> m.nnum],
            !.vd = [offset |-> [buf |-> t, idx |-> 0], cells |-> t,
                    celltypes |-> [buf |-> t, idx |-> 0], loc |-> 0, nref |-> t]]

\* free(nref) at the end of ans_to_vtk in thread t.
VtkFree(H, t) == [H EXCEPT !.nref[t].live = FALSE]

\* The arrays the caller of ans_to_vtk allocates: room for a point count and
\* twenty points per element, and one offset and one cell type per element.
OutArrays(m) ==
  [cells |-> [a |-> Rep(-7, 21 * m.nelem), oob |-> {}],
   offset |-> [a |-> Rep(-7, m.nelem), oob |-> {}],
   celltypes |-> [a |-> Rep(-7, m.nelem), oob |-> {}]]

\* The memory of a process whose threads t are about to convert ms[t].
Heap0(ms) ==
  [vd |-> VtkData0,
   out |-> [t \in DOMAIN ms |-> OutArrays(ms[t])],
   nref |-> [t \in DOMAIN ms |-> [live |-> FALSE, nnum |-> <<>>]]]

\* for (i=0; i<nelem; i++): the loop of one call running alone, with the
\* value of loc before and after each element.
RECURSIVE VtkLoop(_, _, _, _, _)
VtkStep(H0, H1, m, i, junk, trace) ==
  VtkLoop(H1, m, i + 1, junk, Append(trace, [start |-> H0.vd.loc, stop |-> H1.vd.loc]))

VtkLoop(H, m, i, junk, trace) ==
  IF i < m.nelem THEN VtkStep(H, VtkElement(H, m, i, junk), m, i, junk, trace)
  ELSE [status |-> "returned", ret |-> H.vd.loc, cells |-> H.out[1].cells,
        offset |-> H.out[1].offset, celltypes |-> H.out[1].celltypes,
        trace |-> trace]

\* ans_to_vtk called by the only thread of a process.
ans_to_vtk(m, junk) == VtkLoop(VtkSetup(Heap0(<<m>>), 1, m), m, 0, junk, <<>>)

(* ---- meshes and the specification of ans_to_vtk ---- *)

\* The most elements a generated mesh of several elements has.
MaxCells == 2

\* Node k (from 0) of an element whose first eight nodes follow the ANSYS
\* pattern of a hexahedron, a wedge [0,1,2,2,3,4,5,5], a pyramid
\* [0,1,2,3,4,4,4,4] or a tetrahedron [0,1,2,2,3,3,3,3].
ShapeNode(pat, k) ==
  IF k >= 8 THEN k + 1
  ELSE CASE pat = "hex" -> k + 1
         [] pat = "wedge" -> <<1, 2, 3, 3, 4, 5, 6, 6>>[k + 1]
         [] pat = "pyr" -> <<1, 2, 3, 4, 5, 5, 5, 5>>[k + 1]
         [] pat = "tet" -> <<1, 2, 3, 3, 4, 4, 4, 4>>[k + 1]

\* An element as ans_to_vtk reads it: ten leading fields, the second of
\* which is the element type number, then its nodes.
MeshElem(k) ==
  <<1, k.class + 1, 1, 1, 0, 0, 0, 0, k.nnode, 0>>
    \o [n \in 1..k.nnode |-> ShapeNode(k.pat, n - 1)]

\* elem_off for the elements ks laid out one after another from index at.
RECURSIVE MeshOffsets(_, _)
MeshOffsets(ks, at) ==
  IF ks = <<>> THEN <<at>>
  ELSE <<at>> \o MeshOffsets(Tail(ks), at + 10 + Head(ks).nnode)

\* The arguments of one call: elements ks, type numbers 1..6 standing for
\* the classes 0..5, and nodes numbered 1..20.
Mesh(ks, build_offset) ==
  [shape |-> "mesh", nelem |-> Len(ks), kinds |-> ks,
   elem |-> Flatten([i \in 1..Len(ks) |-> MeshElem(ks[i])]),
   elem_off |-> MeshOffsets(ks, 0),
   type_ref |-> <<0, 0, 1, 2, 3, 4, 5>>,
   nnum |-> Ints(1, 20),
   build_offset |-> build_offset]

\* Every class with every node count from 1 to 20; solids in each pattern.
ElemKinds ==
  [class : (0..5) \ {4}, nnode : 1..20, pat : {"hex"}]
    \cup [class : {4}, nnode : 1..20, pat : {"hex", "wedge", "pyr", "tet"}]

\* The kinds meshes of several elements are made of.
MeshKinds ==
  {[class |-> 0, nnode |-> 4, pat |-> "hex"], [class |-> 1, nnode |-> 1, pat |-> "hex"],
   [class |-> 3, nnode |-> 8, pat |-> "hex"], [class |-> 4, nnode |-> 20, pat |-> "hex"],
   [class |-> 4, nnode |-> 8, pat |-> "tet"], [class |-> 5, nnode |-> 10, pat |-> "hex"]}

Meshes ==
  {Mesh(<<k>>, b) : k \in ElemKinds, b \in BOOLEAN}
    \cup UNION {{Mesh(ks, b) : ks \in [1..n -> MeshKinds], b \in BOOLEAN} : n \in 2..MaxCells}

\* What a read outside elem or of an unset entry of nref may yield.
JunkInts == {0, 3}

\* The decoders are not under test and no second thread runs.
NoThreads == tin = <<>> /\ heap = [status |-> "none"] /\ th = <<>>

VtkInit ==
  /\ NoRecord
  /\ NoStream
  /\ NoText
  /\ NoThreads
  /\ NoNodes
  /\ NoMatrix
  /\ mesh \in Meshes
  /\ rv = [status |-> "idle"]

\* A caller runs ans_to_vtk on the mesh.
AnsToVtk ==
  /\ rv.status = "idle"
  /\ \E junk \in JunkInts : rv' = ans_to_vtk(mesh, junk)
  /\ UNCHANGED <<hdr, payload, start, gen, arr, fpos, rr, rs, stream, rh, text, rn, re, ri, mesh, tin, heap, th, nfile, rd, full, ra>>

VtkNext == AnsToVtk

VtkSpec == VtkInit /\ [][VtkNext]_vars

(* ---- C26 ---- *)

\* The entry of cells at index i.
CellAt(r, i) == r.cells.a[i + 1]

\* The sum of 1 + point count over the first n cells of a call.
RECURSIVE CellTotal(_, _)
CellTotal(r, n) ==
  IF n = 0 THEN 0 ELSE CellTotal(r, n - 1) + 1 + CellAt(r, r.trace[n].start)

\* C26: ans_to_vtk emits well-formed cells: for every element of class 0..5
\* with 1 to 20 nodes, the point count written at the start of its cell
\* equals the number of connectivity entries written after it; with
\* build_offset, offset[i] is the index of the point count of cell i; and the
\* return value is the sum over all elements of 1 + point count.
C26_WellFormedCells ==
  rv.status = "returned" =>
    /\ \A i \in 1..mesh.nelem :
         /\ CellAt(rv, rv.trace[i].start) = rv.trace[i].stop - rv.trace[i].start - 1
         /\ mesh.build_offset => rv.offset.a[i] = rv.trace[i].start
    /\ rv.ret = CellTotal(rv, mesh.nelem)

\* The same for meshes without a class 5 element of more than ten nodes.
C26_WellFormedUpToTenNodes ==
  (\A i \in 1..mesh.nelem : mesh.kinds[i].class = 5 => mesh.kinds[i].nnode <= 10) =>
    C26_WellFormedCells

(* ---- two threads calling ans_to_vtk ---- *)

Threads == {1, 2}

\* The meshes the threads convert: no read of theirs leaves elem or nref, so
\* a call running alone has one outcome.
ThreadKinds ==
  {[class |-> 1, nnode |-> 1, pat |-> "hex"], [class |-> 4, nnode |-> 8, pat |-> "hex"],
   [class |-> 5, nnode |-> 4, pat |-> "hex"]}

ThreadMeshes ==
  UNION {{Mesh(ks, TRUE) : ks \in [1..n -> ThreadKinds]} : n \in 1..MaxCells}

\* No single caller is under test.
NoCall == mesh = [shape |-> "none"] /\ rv = [status |-> "none"]

\* Each thread holds its own elem, nnum and output arrays; vtk_data is the
\* one object they share.
ThreadsInit ==
  /\ NoRecord
  /\ NoStream
  /\ NoText
  /\ NoCall
  /\ NoNodes
  /\ NoMatrix
  /\ tin \in [Threads -> ThreadMeshes]
  /\ heap = Heap0(tin)
  /\ th = [t \in Threads |-> [pc |-> "start", i |-> 0, ret |-> 0]]

\* Thread t enters ans_to_vtk and populates the global.
ThreadSetup(t) ==
  /\ th[t].pc = "start"
  /\ heap' = VtkSetup(heap, t, tin[t])
  /\ th' = [th EXCEPT ![t].pc = "loop"]
  /\ UNCHANGED <<hdr, payload, start, gen, arr, fpos, rr, rs, stream, rh, text, rn, re, ri, mesh, rv, tin, nfile, rd, full, ra>>

\* Thread t converts its next element through the global.
ThreadElement(t) ==
  /\ th[t].pc = "loop" /\ th[t].i < tin[t].nelem
  /\ \E junk \in JunkInts : heap' = VtkElement(heap, tin[t], th[t].i, junk)
  /\ th' = [th EXCEPT ![t].i = @ + 1]
  /\ UNCHANGED <<hdr, payload, start, gen, arr, fpos, rr, rs, stream, rh, text, rn, re, ri, mesh, rv, tin, nfile, rd, full, ra>>

\* Thread t leaves the loop: free(nref); return vtk_data.loc.
ThreadReturn(t) ==
  /\ th[t].pc = "loop" /\ th[t].i = tin[t].nelem
  /\ heap' = VtkFree(heap, t)
  /\ th' = [th EXCEPT ![t].pc = "done", ![t].ret = heap.vd.loc]
  /\ UNCHANGED <<hdr, payload, start, gen, arr, fpos, rr, rs, stream, rh, text, rn, re, ri, mesh, rv, tin, nfile, rd, full, ra>>

ThreadsNext == \E t \in Threads : ThreadSetup(t) \/ ThreadElement(t) \/ ThreadReturn(t)

ThreadsSpec == ThreadsInit /\ [][ThreadsNext]_vars

(* ---- C23 ---- *)

\* What thread t's call returns and leaves in its arrays when run alone.
Alone(t) == ans_to_vtk(tin[t], 0)

\* C23: no component holds process-wide mutable state: two conversions of
\* different meshes into disjoint output arrays, run in two threads with any
\* interleaving and no coordination, each return the value and leave the
\* cells, offsets and cell types they produce when run alone.
C23_ThreadsDoNotInterfere ==
  \A t \in Threads :
    (\A u \in Threads : th[u].pc = "done") =>
      /\ th[t].ret = Alone(t).ret
      /\ heap.out[t].cells = Alone(t).cells
      /\ heap.out[t].offset = Alone(t).offset
      /\ heap.out[t].celltypes = Alone(t).celltypes

(* ==== read_nodes: a run of node records (binary_reader.cpp) ==== *)

\* The most records a generated node file holds.
MaxRec == 2

\* The four bytes of a word of the file, least significant first.
WordBytes(w) == <<ByteOf(w, 0), ByteOf(w, 1), ByteOf(w, 2), ByteOf(w, 3)>>

\* The eight header bytes read_header finds at word pos of the file.
HeaderAt(words, pos, junk) ==
  WordBytes(W(words, pos, junk)) \o WordBytes(W(words, pos + 1, junk))

\* The words of the file from word pos on.
WordsFrom(words, pos) == SubSeq(words, pos + 1, Len(words))

\* char *raw = new char[68*4], seen as the doubles read_nodes takes from it.
NodeRaw(junk) == NewArray("double", (68 * 4) \div SizeOf("double"), junk)

\* (int) of the double raw holds: a double stored as the words <<v, -v>>
\* stands for the value v; any other pattern converts to some int.
IntOfDouble(d, junk) == IF d[2] = -d[1] THEN d[1] ELSE junk

\* nodes[n*6 + k] = *((double*) &raw[8 + 8*k]) for k = from..5
RECURSIVE StoreNode(_, _, _, _)
StoreNode(nodes, raw, n, from) ==
  IF from > 5 THEN nodes
  ELSE StoreNode(Store(nodes, n * 6 + from, raw.a[from + 2]), raw, n, from + 1)

\* The rest of a pass of the loop of read_nodes once read_record_stream
\* handed back c: the footer is skipped and record n is taken from raw.
\* bufsize is the buffer size the header of the record declares.
NodesTake(st, bufsize, c, junk) ==
  [status |-> IF c.res.status = "returned" /\ c.res.ret.oob = {} THEN st.status
              ELSE "crashed",
   n |-> st.n + 1,
   pos |-> c.pos + 1,
   raw |-> c.res.ret,
   nnum |-> Store(st.nnum, st.n, IntOfDouble(c.res.ret.a[1], junk)),
   nodes |-> StoreNode(st.nodes, c.res.ret, st.n, 0),
   log |-> Append(st.log, [start |-> st.pos, size |-> bufsize, stop |-> c.pos + 1])]

\* One pass of for (n=0; n<nrec; n++) over the words of the file.
NodesPass(words, st, junk) ==
  NodesTake(st, read_header(HeaderAt(words, st.pos, junk)).bufsize,
            read_record_stream(HeaderAt(words, st.pos, junk),
                               WordsFrom(words, st.pos + 2),
                               st.pos, -1, junk, st.raw), junk)

\* read_nodes before its loop: raw allocated, the stream at word ptrLOC.
NodesStart(f, junk) ==
  [status |-> "running", n |-> 0, pos |-> f.ptrLOC, raw |-> NodeRaw(junk),
   nnum |-> [a |-> Rep(-7, f.nrec), oob |-> {}],
   nodes |-> [a |-> Rep(<<-7, -7>>, 6 * f.nrec), oob |-> {}],
   log |-> <<>>]

(* ---- node files ---- *)

\* The payload of a node record of each kind, its doubles numbered from
\* from: full and short dense records, an empty record, bitmask records of
\* seven and of two values, windowed records of seven and of two values.
NodePayload(kind, from) ==
  CASE kind = "dense" -> EncVals("double", ValSeq(from, 7))
    [] kind = "dense short" -> EncVals("double", ValSeq(from, 2))
    [] kind = "empty" -> <<>>
    [] kind = "bitmask" -> <<7, 127>> \o EncVals("double", ValSeq(from, 7))
    [] kind = "bitmask sparse" -> <<7, 5>> \o EncVals("double", ValSeq(from, 2))
    [] kind = "bitmask short" -> <<2, 3>> \o EncVals("double", ValSeq(from, 2))
    [] kind = "windowed" ->
         <<7, 1, 0, 7>> \o EncVals("double", ValSeq(from, 7))
    [] kind = "windowed short" ->
         <<2, 1, 0, 2>> \o EncVals("double", ValSeq(from, 2))

NodeKinds ==
  {"dense", "dense short", "empty", "bitmask", "bitmask sparse", "bitmask short",
   "windowed", "windowed short"}

\* The words of a record on disk: two header words, the payload, a footer.
NodeRecordWords(kind, from) ==
  <<Len(NodePayload(kind, from)),
    (IF kind \in {"bitmask", "bitmask sparse", "bitmask short"} THEN 8
     ELSE IF kind \in {"windowed", "windowed short"} THEN 16 ELSE 0) * Pow2(24)>>
    \o NodePayload(kind, from) \o <<Len(NodePayload(kind, from))>>

\* A file of the records kinds after ptrLOC leading words.
NodeFile(kinds, ptrLOC) ==
  [shape |-> "nodes", kinds |-> kinds, nrec |-> Len(kinds), ptrLOC |-> ptrLOC,
   words |-> Rep(99, ptrLOC)
               \o Flatten([k \in 1..Len(kinds) |-> NodeRecordWords(kinds[k], 10 * k)])]

NodeFiles ==
  UNION {{NodeFile(ks, p) : ks \in [1..n -> NodeKinds], p \in {0, 1}} : n \in 1..MaxRec}

NodesInit ==
  /\ NoRecord
  /\ NoStream
  /\ NoText
  /\ NoMesh
  /\ NoMatrix
  /\ nfile \in NodeFiles
  /\ rd = [status |-> "idle"]

\* A caller enters read_nodes.
NodesOpen ==
  /\ rd.status = "idle"
  /\ \E junk \in Junk : rd' = NodesStart(nfile, junk)
  /\ UNCHANGED <<hdr, payload, start, gen, arr, fpos, rr, rs, stream, rh, text, rn, re, ri, mesh, rv, tin, heap, th, nfile, full, ra>>

\* read_nodes reads its next record.
NodesRead ==
  /\ rd.status = "running" /\ rd.n < nfile.nrec
  /\ \E junk \in Junk : rd' = NodesPass(nfile.words, rd, junk)
  /\ UNCHANGED <<hdr, payload, start, gen, arr, fpos, rr, rs, stream, rh, text, rn, re, ri, mesh, rv, tin, heap, th, nfile, full, ra>>

\* read_nodes leaves its loop and returns.
NodesReturn ==
  /\ rd.status = "running" /\ rd.n = nfile.nrec
  /\ rd' = [rd EXCEPT !.status = "returned"]
  /\ UNCHANGED <<hdr, payload, start, gen, arr, fpos, rr, rs, stream, rh, text, rn, re, ri, mesh, rv, tin, heap, th, nfile, full, ra>>

NodesNext == NodesOpen \/ NodesRead \/ NodesReturn

NodesSpec == NodesInit /\ [][NodesNext]_vars

(* ---- C27 ---- *)

\* The word record k (from 1) of the file starts at.
RECURSIVE RecordStart(_, _)
RecordStart(f, k) ==
  IF k = 1 THEN f.ptrLOC
  ELSE RecordStart(f, k - 1) + Len(NodeRecordWords(f.kinds[k - 1], 10 * (k - 1)))

\* Record k of the file read on its own by a fresh read_nodes, whose raw
\* holds j1 and whose reads outside a buffer yield j2.
OwnRecord(f, k, j1, j2) ==
  NodesPass(f.words, [NodesStart(f, j1) EXCEPT !.pos = RecordStart(f, k), !.n = k - 1], j2)

\* Every record read so far moved the stream by buffer_size + 3 words from
\* its start, and was read from the word after its predecessor's footer.
PositionsInSequence ==
  rd.status \in {"running", "returned"} =>
    \A k \in 1..Len(rd.log) :
      /\ rd.log[k].start = RecordStart(nfile, k)
      /\ rd.log[k].size >= 0
      /\ rd.log[k].stop = rd.log[k].start + rd.log[k].size + 3

\* C27: read_nodes reads its records strictly in sequence: each record, be it
\* dense, bitmask-sparse or windowed-sparse with buffer_size >= 0, moves the
\* stream by buffer_size + 3 words from its start, so that the next record
\* is read from the word after its footer, and nnum[n] and nodes[6n..6n+5]
\* come from the payload of record n itself: they are what reading record n
\* on its own gives.
C27_RecordsInSequence ==
  /\ PositionsInSequence
  /\ rd.status = "returned" =>
       \A k \in 1..nfile.nrec :
         \E j1, j2 \in Junk :
           /\ rd.nnum.a[k] = OwnRecord(nfile, k, j1, j2).nnum.a[k]
           /\ \A i \in (6 * k - 5)..(6 * k) :
                rd.nodes.a[i] = OwnRecord(nfile, k, j1, j2).nodes.a[i]

\* The same for files whose records all decode to seven doubles or more.
C27_FullRecordsInSequence ==
  (nfile.shape = "nodes"
     /\ \A k \in 1..nfile.nrec : nfile.kinds[k] \in {"dense", "bitmask", "bitmask sparse", "windowed"})
    => C27_RecordsInSequence

(* ==== read_array: the matrices of a .full file (parsefull.c) ==== *)

\* read_int_raw(&raw, e): the int at byte e of raw (e is a multiple of 4).
read_int_raw(raw, e, junk) == W(raw, e \div 4, junk)

\* read_double_raw(&raw, e): the double at byte e of raw, as its two words.
read_double_raw(raw, e, junk) ==
  <<W(raw, e \div 4, junk), W(raw, (e \div 4) + 1, junk)>>

\* a[i] of an int array the caller passed in.
IntAt(a, i, junk) == IF i >= 0 /\ i < Len(a) THEN a[i + 1] ELSE junk

\* skipped[j] = 1; ++inval; continue;
MarkSkipped(st, j) ==
  [st EXCEPT !.e = @ + 4, !.skipped = Store(@, j, 1), !.inval = @ + 1]

\* A variant that writes (row, col) without its mirror image.
PutPair_single(st, j, row, col) ==
  [st EXCEPT !.e = @ + 4, !.skipped = Store(@, j, 0),
             !.rows = Store(@, st.c, row), !.cols = Store(@, st.c, col),
             !.c = @ + 1]

\* skipped[j] = 0; then (row, col) and (col, row) are written.
PutPair(st, j, row, col) ==
  [st EXCEPT !.e = @ + 4, !.skipped = Store(@, j, 0),
             !.rows = Store(Store(@, st.c, row), st.c + 1, col),
             !.cols = Store(Store(@, st.c, col), st.c + 1, row),
             !.c = @ + 2]

\* for (j = 0; j < nitems - 1; j += 1): rows and cols of the terms but the
\* last one.
RECURSIVE IndexLoop(_, _, _, _, _, _, _)
IndexTerm(raw, junk, rref, col, nitems, j, st, row) ==
  IndexLoop(raw, junk, rref, col, nitems, j + 1,
            IF row = -1 THEN MarkSkipped(st, j) ELSE PutPair(st, j, row, col))

IndexLoop(raw, junk, rref, col, nitems, j, st) ==
  IF j < nitems - 1
  THEN IndexTerm(raw, junk, rref, col, nitems, j, st,
                 IntAt(rref, read_int_raw(raw, st.e, junk), junk))
  ELSE st

\* Last item is always the diagonal: (col, col); then e += 16.
PutDiagonal(st, col) ==
  [st EXCEPT !.rows = Store(@, st.c, col), !.cols = Store(@, st.c, col),
             !.c = @ + 1, !.e = @ + 16]

\* A variant that leaves the offset on a skipped value.
DataSkip_stay(st) == st

\* if (skipped[j]) { e += 8; continue; }
DataSkip(st) == [st EXCEPT !.e = @ + 8]

\* (*data)[d] = vald, twice: the term and its symmetric part.
PutData(st, vald) ==
  [st EXCEPT !.e = @ + 8, !.data = Store(Store(@, st.d, vald), st.d + 1, vald),
             !.d = @ + 2]

\* for (j = 0; j < nitems - 1; ++j): the values of the terms but the last.
RECURSIVE DataLoop(_, _, _, _, _)
DataLoop(raw, junk, nitems, j, st) ==
  IF j < nitems - 1
  THEN DataLoop(raw, junk, nitems, j + 1,
                IF IntAt(st.skipped.a, j, junk) # 0 THEN DataSkip(st)
                ELSE PutData(st, read_double_raw(raw, st.e, junk)))
  ELSE st

\* Last item belongs to the diagonal; then e += 4.
PutDiagonalData(raw, junk, st) ==
  [st EXCEPT !.data = Store(@, st.d, read_double_raw(raw, st.e, junk)),
             !.d = @ + 1, !.e = @ + 8 + 4]

\* The branch of a free equation, st.e past nitems already.
FreeEquation(raw, junk, rref, col, nitems, st) ==
  PutDiagonalData(raw, junk,
    DataLoop(raw, junk, nitems, 0,
      PutDiagonal(IndexLoop(raw, junk, rref, col, nitems, 0, [st EXCEPT !.e = @ + 4]),
                  col)))

\* A variant that skips one word too few.
EqnSkip_short(st, nitems) == [st EXCEPT !.e = @ + (3 * nitems + 4) * 4]

\* Otherwise, skip this section: e += (3*nitems + 5)*4.
EqnSkip(st, nitems) == [st EXCEPT !.e = @ + (3 * nitems + 5) * 4]

\* The end of a pass: s1 is the state the branch taken left.  A read past
\* the bytes loaded is noted in over.
EquationDone(raw, st, nitems, free, s1) ==
  [s1 EXCEPT !.i = @ + 1,
             !.log = Append(@, [start |-> st.e, nitems |-> nitems, stop |-> s1.e]),
             !.over = @ \/ st.e \div 4 >= Len(raw)
                        \/ (free /\ s1.e - 4 > 4 * Len(raw))]

\* One pass of for (i = 0; i<neqn; ++i), nitems being the int at e.
EquationBody(f, raw, junk, st, nitems) ==
  EquationDone(raw, st, nitems, IntAt(f.isfree, st.i, junk) # 0,
               IF IntAt(f.isfree, st.i, junk) # 0
               THEN FreeEquation(raw, junk, f.rref, IntAt(f.cref, st.i, junk), nitems,
                                 [st EXCEPT !.e = @ + 4])
               ELSE EqnSkip([st EXCEPT !.e = @ + 4], nitems))

Equation(f, junk, st) ==
  EquationBody(f, st.raw, junk, st, read_int_raw(st.raw, st.e, junk))

\* int nread = neqn*24 + nterm*12: the bytes loaded into raw.
Nread(neqn, nterm) == neqn * 24 + nterm * 12

\* read_array before its loop: raw holds the first nread bytes at fileloc,
\* the output arrays are those of the caller.
ArrayStart(f) ==
  [status |-> "running", i |-> 0, e |-> 0, c |-> 0, d |-> 0, inval |-> 0,
   raw |-> SubSeq(f.words, 1, Min(Nread(f.neqn, f.nterm) \div 4, Len(f.words))),
   rows |-> [a |-> Rep(-7, f.arrsz), oob |-> {}],
   cols |-> [a |-> Rep(-7, f.arrsz), oob |-> {}],
   data |-> [a |-> Rep(<<-7, -7>>, f.arrsz), oob |-> {}],
   skipped |-> [a |-> Rep(-7, f.wfmax), oob |-> {}],
   log |-> <<>>, over |-> FALSE]

(* ---- matrix files ---- *)

\* The most equations a generated matrix has, and the most terms of one.
MaxEqn == 3

\* The value stored for term j of equation i (from 1), as a double.
TermValue(i, j) == ElemOf("double", 100 * i + j)

\* The words of an equation on disk: nitems, a word, the indices of the
\* terms (the equation's own last), three words, the values (the diagonal
\* last), a word: 3*nitems + 6 words.  q.terms are the off-diagonal terms of
\* a free equation; a constrained equation stores q.nitems terms of no
\* interest.
EquationWords(q, i) ==
  IF q.free
  THEN <<Len(q.terms) + 1, 55>> \o q.terms \o <<i, 55, 55, 55>>
         \o Flatten([j \in 1..Len(q.terms) |-> TermValue(i, j)])
         \o TermValue(i, 0) \o <<55>>
  ELSE <<q.nitems>> \o Rep(77, 3 * q.nitems + 5)

\* The increasing sequences of equation numbers below i.
RECURSIVE TermsBelow(_)
TermsBelow(i) ==
  IF i <= 1 THEN {<<>>}
  ELSE TermsBelow(i - 1) \cup {Append(t, i - 1) : t \in TermsBelow(i - 1)}

\* Equation i is free with terms on equations below it, or constrained with
\* no term or two stored.
EquationsAt(i) ==
  {[free |-> TRUE, nitems |-> Len(t) + 1, terms |-> t] : t \in TermsBelow(i)}
    \cup {[free |-> FALSE, nitems |-> n, terms |-> <<>>] : n \in {0, 2}}

RECURSIVE EquationSeqs(_)
EquationSeqs(n) ==
  IF n = 0 THEN {<<>>}
  ELSE {Append(qs, q) : qs \in EquationSeqs(n - 1), q \in EquationsAt(n)}

\* The number of free equations among the first n.
RECURSIVE FreeBelow(_, _)
FreeBelow(qs, n) ==
  IF n = 0 THEN 0 ELSE FreeBelow(qs, n - 1) + (IF qs[n].free THEN 1 ELSE 0)

RECURSIVE SumItems(_, _)
SumItems(qs, n) == IF n = 0 THEN 0 ELSE SumItems(qs, n - 1) + qs[n].nitems

\* The arguments read_full hands to read_array for the equations qs: cref[i]
\* and rref[i + 1] number the free equations from 0 and are -1 for the
\* others; rref[0] was never set.  short is the number of terms the header
\* under-reports.
FullFile(qs, short, junk) ==
  [shape |-> "full", eqns |-> qs, neqn |-> Len(qs),
   nterm |-> SumItems(qs, Len(qs)) - short,
   isfree |-> [i \in 1..Len(qs) |-> IF qs[i].free THEN 1 ELSE 0],
   cref |-> [i \in 1..Len(qs) |-> IF qs[i].free THEN FreeBelow(qs, i - 1) ELSE -1],
   rref |-> <<junk>> \o [i \in 1..Len(qs) |-> IF qs[i].free THEN FreeBelow(qs, i - 1) ELSE -1],
   wfmax |-> MaxEqn + 1,
   arrsz |-> 2 * SumItems(qs, Len(qs)),
   words |-> Flatten([i \in 1..Len(qs) |-> EquationWords(qs[i], i)]) \o <<99, 99>>]

FullFiles ==
  UNION {{FullFile(x[1], x[2], x[3]) :
          x \in {y \in EquationSeqs(n) \X {0, 1} \X Junk : y[2] <= SumItems(y[1], n)}} :
         n \in 1..MaxEqn}

FullInit ==
  /\ NoRecord
  /\ NoStream
  /\ NoText
  /\ NoMesh
  /\ NoNodes
  /\ full \in FullFiles
  /\ ra = [status |-> "idle"]

\* A caller enters read_array: the matrix is loaded into raw.
ArrayOpen ==
  /\ ra.status = "idle"
  /\ ra' = ArrayStart(full)
  /\ UNCHANGED <<hdr, payload, start, gen, arr, fpos, rr, rs, stream, rh, text, rn, re, ri, mesh, rv, tin, heap, th, nfile, rd, full>>

\* read_array takes its next equation.
ArrayEquation ==
  /\ ra.status = "running" /\ ra.i < full.neqn
  /\ \E junk \in Junk : ra' = Equation(full, junk, ra)
  /\ UNCHANGED <<hdr, payload, start, gen, arr, fpos, rr, rs, stream, rh, text, rn, re, ri, mesh, rv, tin, heap, th, nfile, rd, full>>

\* read_array leaves its loop: free(raw); return c.
ArrayReturn ==
  /\ ra.status = "running" /\ ra.i = full.neqn
  /\ ra' = [ra EXCEPT !.status = "returned"]
  /\ UNCHANGED <<hdr, payload, start, gen, arr, fpos, rr, rs, stream, rh, text, rn, re, ri, mesh, rv, tin, heap, th, nfile, rd, full>>

FullNext == ArrayOpen \/ ArrayEquation \/ ArrayReturn

FullSpec == FullInit /\ [][FullNext]_vars

(* ---- C28 ---- *)

\* The header of the file reports the terms its equations store.
TermsReported == full.nterm = SumItems(full.eqns, full.neqn)

\* The number the free equation i (from 1) has among the free equations.
FreeIndex(qs, i) == FreeBelow(qs, i - 1)

\* The off-diagonal terms of equation i that refer to a free equation.
KeptTerms(qs, i) == {j \in 1..Len(qs[i].terms) : qs[qs[i].terms[j]].free}

\* The entries (row, col, value) the terms of the free equations stand for:
\* each kept off-diagonal term both ways round, and each diagonal.
Entries(qs) ==
  UNION {{<<FreeIndex(qs, qs[i].terms[j]), FreeIndex(qs, i), TermValue(i, j)>> :
          j \in KeptTerms(qs, i)}
         \cup {<<FreeIndex(qs, i), FreeIndex(qs, qs[i].terms[j]), TermValue(i, j)>> :
               j \in KeptTerms(qs, i)}
         \cup {<<FreeIndex(qs, i), FreeIndex(qs, i), TermValue(i, 0)>>} :
         i \in {n \in 1..Len(qs) : qs[n].free}}

\* Entry k (from 1) of the three output arrays.
EntryAt(k) == <<ra.rows.a[k], ra.cols.a[k], ra.data.a[k]>>

Written(x) == {k \in 1..ra.c : EntryAt(k) = x}

\* The entries a free equation contributes: two per kept term and one.
RECURSIVE EntryCount(_, _)
EntryCount(qs, n) ==
  IF n = 0 THEN 0
  ELSE EntryCount(qs, n - 1)
         + (IF qs[n].free THEN 2 * Cardinality(KeptTerms(qs, n)) + 1 ELSE 0)

\* C29: read_array assembles a symmetric matrix: every off-diagonal term of
\* a free equation whose row reference is not -1 is emitted as (row, col, v)
\* and as (col, row, v), every free equation contributes exactly one
\* diagonal entry (col, col), and constrained equations and terms that refer
\* to constrained rows contribute no entry.
C29_SymmetricAssembly ==
  (ra.status = "returned" /\ TermsReported) =>
    /\ \A i \in {n \in 1..full.neqn : full.eqns[n].free} :
         /\ \A j \in KeptTerms(full.eqns, i) :
              /\ Written(<<FreeIndex(full.eqns, full.eqns[i].terms[j]),
                           FreeIndex(full.eqns, i), TermValue(i, j)>>) # {}
              /\ Written(<<FreeIndex(full.eqns, i),
                           FreeIndex(full.eqns, full.eqns[i].terms[j]),
                           TermValue(i, j)>>) # {}
         /\ Cardinality({k \in 1..ra.c :
                          ra.rows.a[k] = FreeIndex(full.eqns, i)
                          /\ ra.cols.a[k] = FreeIndex(full.eqns, i)}) = 1
    /\ ra.c = EntryCount(full.eqns, full.neqn)
    /\ \A k \in 1..ra.c : ra.rows.a[k] # -1 /\ ra.cols.a[k] # -1

\* A matrix of three equations was assembled: a constrained one, and a free
\* one with a term on it and a term on another free equation.
C29_Witness ==
  /\ ra.status = "returned" /\ TermsReported
  /\ full.neqn = 3 /\ ~full.eqns[1].free /\ full.eqns[2].free
  /\ full.eqns[3].free /\ full.eqns[3].terms = <<1, 2>>
  /\ ra.c = 4

(* ---- C30 ---- *)

\* C30: the read offset of read_array moves by exactly 12*nitems + 24 bytes
\* per equation, be the equation free (with or without skipped terms) or
\* constrained, so after all neqn equations it is 24*neqn + 12*(sum of
\* nitems), and it stays within the neqn*24 + nterm*12 bytes loaded whenever
\* the sum of nitems equals nterm.
C30_OffsetAdvance ==
  ra.status \in {"running", "returned"} =>
    /\ \A k \in 1..Len(ra.log) :
         /\ ra.log[k].nitems = full.eqns[k].nitems
         /\ ra.log[k].stop = ra.log[k].start + 12 * ra.log[k].nitems + 24
    /\ ra.status = "returned" =>
         ra.e = 24 * full.neqn + 12 * SumItems(full.eqns, full.neqn)
    /\ TermsReported =>
         ra.e <= Nread(full.neqn, full.nterm) /\ ~ra.over

\* All the equations of a matrix were read: a constrained one, a free one
\* with a skipped term and one without, up to the last byte loaded.
C30_Witness ==
  /\ ra.status = "returned" /\ TermsReported
  /\ ra.e = Nread(full.neqn, full.nterm)
  /\ \E i, j, k \in 1..full.neqn :
       /\ ~full.eqns[i].free /\ full.eqns[i].nitems = 2
       /\ full.eqns[j].free /\ KeptTerms(full.eqns, j) # 1..Len(full.eqns[j].terms)
       /\ full.eqns[k].free /\ KeptTerms(full.eqns, k) = 1..Len(full.eqns[k].terms)

====
